---- MODULE Spec2Model ----
(***************************************************************************)
(* Shared request layer of the NetApp ONTAP nodes                          *)
(* (src/nodes/shared/GenericFunctions.ts): the request issuer, the         *)
(* pagination walker and the job poller, as state machines.                *)
(*                                                                         *)
(* Conventions.                                                            *)
(*  - An optional JavaScript value is a sequence of length 0 (undefined)   *)
(*    or 1 (the value).                                                    *)
(*  - A JavaScript object (IDataObject) is a function from its keys to     *)
(*    their values; the empty object is the function with empty domain.    *)
(*  - A text built by a template literal is the sequence of its parts, so  *)
(*    that "contains" is membership of a part.                             *)
(*  - Time is in milliseconds and advances only at the awaits (the network *)
(*    round trip and the sleep); synchronous code takes no time.           *)
(***************************************************************************)
EXTENDS Integers, Sequences, FiniteSets, TLC

(***************************************************************************)
(* Bounds of the model                                                     *)
(***************************************************************************)
MaxTimeout == 3      \* timeoutMs is drawn from 0..MaxTimeout
MaxPoll == 2         \* pollIntervalMs is drawn from 1..MaxPoll
MaxLatency == 2      \* a round trip takes 0..MaxLatency ms
MaxJitter == 1       \* a sleep of d ms takes d..d+MaxJitter ms
MaxRequests == 3     \* the walker is followed for at most MaxRequests pages
StartClock == 7      \* Date.now() when the model starts

(***************************************************************************)
(* Program constants                                                       *)
(***************************************************************************)
DEFAULT_MAX_RECORDS == 1000
DEFAULT_PORT == 443
DEFAULT_JOB_TIMEOUT_MS == 300000
DEFAULT_POLL_INTERVAL_MS == 2000

VARIABLES
    \* ---- context shared by every call (node parameters, network) ----
    clusterHost,     \* getNodeParameter('clusterHost', 0)
    clusterPort,     \* getNodeParameter('clusterPort', 0, 443)
    sent,            \* the request options handed to the HTTP helper, in order
    raised,          \* the errors thrown by ontapApiRequest, in order
    now,             \* Date.now()
    \* ---- pollJobUntilComplete ----
    pollPc,          \* "idle" | "entry" | "loop" | "fetch" | "sleep" | "done"
    jobUuid,
    timeoutMs,
    pollIntervalMs,
    startTime,       \* <<>> before entry, <<t>> after
    trace,           \* events of the call: [ev |-> "fetch" | "sleep", at |-> elapsed ms at its start]
    observed,        \* job payloads returned by the status fetches, in order
    waited,          \* total time spent in sleep
    lastLatency,     \* duration of the last completed round trip
    lastSleep,       \* duration of the last completed sleep
    pollOutcome,     \* "none" | "returned" | "jobFailed" | "unknownState" | "timeout" | "requestError"
    pollResult,      \* <<>> or <<job>> : the value returned
    pollError,       \* <<>> or <<error>> : the error thrown
    \* ---- ontapApiRequestAllItems ----
    walkPc,          \* "idle" | "entry" | "loop" | "await" | "done"
    method,
    endpoint,
    body,
    query,           \* the caller's query object (held by reference)
    query0,          \* the value of that object when the call was made
    returnData,
    nextLink,        \* <<>> (undefined) or <<href>>
    served,          \* pages returned by the server, in order
    walkOutcome,     \* "none" | "returned" | "requestError"
    walkResult,      \* <<>> or <<records>>
    walkError,       \* <<>> or <<error>>
    \* ---- a single ontapApiRequest made by a node ----
    reqPc,           \* "idle" | "entry" | "await" | "done"
    reqArgs,         \* [method, endpoint, body, query, uri]: the caller's objects
    reqArgs0,        \* their values when the call was made
    reqRaw,          \* <<>> or <<raw>> : what the HTTP helper raised
    reqOutcome,      \* "none" | "returned" | "error"
    reqResult,       \* <<>> or <<response>>
    reqError,        \* <<>> or <<error>>
    \* ---- handleAsyncResponse ----
    asyncPc,         \* "idle" | "entry" | "polling" | "done"
    response,        \* the caller's response object
    response0,       \* its value when the call was made
    waitForCompletion,
    asyncOutcome,    \* "none" | "returned" | "error"
    asyncResult,     \* <<>> or <<mapping>>
    asyncError,      \* <<>> or <<error>>
    \* ---- parseOntapError ----
    normPc,          \* "idle" | "done" | "raised"
    normArg,         \* the value passed as error
    normIn,          \* <<>> (null, undefined) or <<raw error>> : that value as a mapping
    normOut,         \* <<>> or <<message>>
    normOutcome,     \* "none" | "string" | "nonString" | "raised"
    \* ---- parseSize ----
    sizePc,          \* "idle" | "done"
    sizeStr,         \* the argument, as its sequence of characters
    sizeOutcome,     \* "none" | "returned" | "formatError"
    sizeValue,       \* <<>> or <<decimal digits of the number returned>>
    \* ---- parseApiFilters ----
    filterPc,        \* "idle" | "done"
    filterStr,       \* the argument, as its sequence of characters
    filterQs,        \* the query object returned
    \* ---- cleanObject ----
    cleanPc,         \* "idle" | "done"
    cleanArg,        \* the mapping passed
    cleanResult,     \* the mapping returned
    \* ---- execute ----
    execPc,          \* "idle" | "item" | "lookup" | "mutate" | "wait" | "done"
    operation,       \* getNodeParameter('resource', 0), getNodeParameter('operation', 0)
    execItems,       \* the parameters of each input item
    continueOnFail,  \* this.continueOnFail()
    itemIndex,       \* i + 1
    issued,          \* the requests made, in order: [item, method, target]
    lookups,         \* the pages the lookups received, in order: [item, page]
    volumes,         \* the records of the lookup under way
    resolved,        \* <<>> or <<identifier of the item's target>>
    pending,         \* the response whose job is waited for
    failed,          \* the errors that reached the catch block: [item, error]
    outputData,      \* returnData of execute
    execOutcome,     \* "none" | "returned" | "thrown"
    execResult,      \* <<>> or <<the entries returned>>
    execError        \* <<>> or <<the error thrown>>

ctxVars == <<clusterHost, clusterPort, sent, raised, now>>
pollVars == <<pollPc, jobUuid, timeoutMs, pollIntervalMs, startTime, trace, observed,
              waited, lastLatency, lastSleep, pollOutcome, pollResult, pollError>>
walkVars == <<walkPc, method, endpoint, body, query, query0, returnData, nextLink,
              served, walkOutcome, walkResult, walkError>>
reqVars == <<reqPc, reqArgs, reqArgs0, reqRaw, reqOutcome, reqResult, reqError>>
asyncVars == <<asyncPc, response, response0, waitForCompletion, asyncOutcome, asyncResult,
               asyncError>>
normVars == <<normPc, normArg, normIn, normOut, normOutcome>>
sizeVars == <<sizePc, sizeStr, sizeOutcome, sizeValue>>
filterVars == <<filterPc, filterStr, filterQs>>
cleanVars == <<cleanPc, cleanArg, cleanResult>>
execVars == <<execPc, operation, execItems, continueOnFail, itemIndex, issued, lookups, volumes,
              resolved, pending, failed, outputData, execOutcome, execResult, execError>>
\* The request layer and the error normalizer; the helpers and the node.
coreVars == <<ctxVars, pollVars, walkVars, reqVars, asyncVars, normVars>>
otherVars == <<sizeVars, filterVars, cleanVars, execVars>>
\* What the steps of one component leave alone.
notPollVars == <<walkVars, reqVars, asyncVars, normVars, otherVars>>
notWalkVars == <<pollVars, reqVars, asyncVars, normVars, otherVars>>
vars == <<ctxVars, pollVars, walkVars, reqVars, asyncVars, normVars, otherVars>>

(***************************************************************************)
(* JavaScript values                                                       *)
(***************************************************************************)
Undefined == <<>>
Some(v) == <<v>>
EmptyObject == [k \in {} |-> 0]

\* JavaScript truthiness of an optional string: undefined and "" are falsy.
TruthyStr(opt) == opt # <<>> /\ opt[1] # ""
\* JavaScript truthiness of an optional number: undefined and 0 are falsy.
TruthyNum(opt) == opt # <<>> /\ opt[1] # 0
\* `${value}` for an optional string.
TemplateText(opt) == IF opt = <<>> THEN "undefined" ELSE opt[1]
\* String.prototype.includes on a text kept as a sequence of parts.
Contains(text, part) == part = "" \/ \E i \in 1..Len(text) : text[i] = part

Last(s) == s[Len(s)]

(***************************************************************************)
(* parseOntapError (GenericFunctions.ts 216-283)                           *)
(* A raw error is a record with the optional fields                        *)
(*   error      : <<>> | <<[isArray, message, code, items]>>               *)
(*   statusCode : <<>> | <<number>>                                        *)
(*   code       : <<>> | <<string>>                                        *)
(*   message    : <<>> | <<string>>                                        *)
(* where a nested error object has optional message and code, and a nested *)
(* error array has items, each with an optional message.                   *)
(***************************************************************************)
errorCodeMap ==
    [c \in {"4", "65536", "917927", "1376259", "2621462", "6619139", "13303850",
            "262179", "1254269", "2621706"} |->
        CASE c = "4" -> "Invalid input parameters"
          [] c = "65536" -> "Resource not found"
          [] c = "917927" -> "Volume not found or does not exist"
          [] c = "1376259" -> "Aggregate not found"
          [] c = "2621462" -> "SVM not found or not configured"
          [] c = "6619139" -> "LUN not found"
          [] c = "13303850" -> "Snapshot policy not found"
          [] c = "262179" -> "Permission denied - check credentials"
          [] c = "1254269" -> "Network interface not found"
          [] c = "2621706" -> "Export policy not found"]

statusCodeMap ==
    [s \in {400, 401, 403, 404, 409, 500, 503} |->
        CASE s = 400 -> "Bad request - Invalid parameters provided"
          [] s = 401 -> "Authentication failed - Invalid username or password"
          [] s = 403 -> "Access denied - Insufficient permissions"
          [] s = 404 -> "Resource not found"
          [] s = 409 -> "Conflict - Resource already exists or operation conflicts with current state"
          [] s = 500 -> "ONTAP internal server error"
          [] s = 503 -> "ONTAP service temporarily unavailable"]

RECURSIVE JoinMessages(_)
JoinMessages(items) ==
    IF items = <<>> THEN <<>>
    ELSE LET m == IF TruthyStr(items[1].message) THEN items[1].message[1] ELSE "Unknown error"
         IN  IF Len(items) = 1 THEN <<m>> ELSE <<m, "; ">> \o JoinMessages(Tail(items))

\* parseOntapError with the status table consulted before the nested error.
parseOntapErrorStatusFirst(err) ==
    LET ontapError == err.error IN
    IF TruthyNum(err.statusCode) /\ err.statusCode[1] \in DOMAIN statusCodeMap
    THEN <<statusCodeMap[err.statusCode[1]]>>
    ELSE IF ontapError # <<>> /\ ~ontapError[1].isArray /\ TruthyStr(ontapError[1].message)
    THEN <<ontapError[1].message[1]>> \o
         (IF TruthyStr(ontapError[1].code)
          THEN <<" (Error code: ", ontapError[1].code[1], ")">> ELSE <<>>)
    ELSE IF ontapError # <<>> /\ ontapError[1].isArray
    THEN JoinMessages(ontapError[1].items)
    ELSE IF TruthyStr(err.code) /\ err.code[1] \in DOMAIN errorCodeMap
    THEN <<errorCodeMap[err.code[1]]>>
    ELSE IF TruthyStr(err.message)
    THEN <<err.message[1]>>
    ELSE <<"An unknown error occurred while communicating with ONTAP">>

\* parseOntapError with the vendor table consulted before the status table.
parseOntapErrorCodeFirst(err) ==
    LET ontapError == err.error IN
    IF ontapError # <<>> /\ ~ontapError[1].isArray /\ TruthyStr(ontapError[1].message)
    THEN <<ontapError[1].message[1]>> \o
         (IF TruthyStr(ontapError[1].code)
          THEN <<" (Error code: ", ontapError[1].code[1], ")">> ELSE <<>>)
    ELSE IF ontapError # <<>> /\ ontapError[1].isArray
    THEN JoinMessages(ontapError[1].items)
    ELSE IF TruthyStr(err.code) /\ err.code[1] \in DOMAIN errorCodeMap
    THEN <<errorCodeMap[err.code[1]]>>
    ELSE IF TruthyNum(err.statusCode) /\ err.statusCode[1] \in DOMAIN statusCodeMap
    THEN <<statusCodeMap[err.statusCode[1]]>>
    ELSE IF TruthyStr(err.message)
    THEN <<err.message[1]>>
    ELSE <<"An unknown error occurred while communicating with ONTAP">>

parseOntapError(err) ==
    LET ontapError == err.error IN
    IF ontapError # <<>> /\ ~ontapError[1].isArray /\ TruthyStr(ontapError[1].message)
    THEN <<ontapError[1].message[1]>> \o
         (IF TruthyStr(ontapError[1].code)
          THEN <<" (Error code: ", ontapError[1].code[1], ")">> ELSE <<>>)
    ELSE IF ontapError # <<>> /\ ontapError[1].isArray
    THEN JoinMessages(ontapError[1].items)
    ELSE IF TruthyNum(err.statusCode) /\ err.statusCode[1] \in DOMAIN statusCodeMap
    THEN <<statusCodeMap[err.statusCode[1]]>>
    ELSE IF TruthyStr(err.code) /\ err.code[1] \in DOMAIN errorCodeMap
    THEN <<errorCodeMap[err.code[1]]>>
    ELSE IF TruthyStr(err.message)
    THEN <<err.message[1]>>
    ELSE <<"An unknown error occurred while communicating with ONTAP">>

RawError(statusCode, code, message) ==
    [error |-> Undefined, statusCode |-> statusCode, code |-> code, message |-> message]

\* The failures the HTTP helper is made to raise in this model.
RawErrors ==
    { RawError(Some(404), Undefined, Some("Request failed with status code 404")),
      RawError(Undefined, Undefined, Some("connect ECONNREFUSED")) }

\* new NodeApiError(node, error, {message})
NodeApiError(cause, message) == [name |-> "NodeApiError", cause |-> cause, message |-> message]

(***************************************************************************)
(* ontapApiRequest (GenericFunctions.ts 34-84)                             *)
(***************************************************************************)
\* getOntapBaseUrl(host, port)
getOntapBaseUrl(host, port) == <<"https://", host, ":", ToString(port)>>

\* The options object after the two deletes (lines 49-70).  ep and uri are
\* texts; the empty text stands for an absent (or empty, equally falsy) uri.
RequestOptionsGetOnly(m, ep, b, q, uri) ==
    [ method |-> m,
      url    |-> IF uri # <<>> THEN uri
                 ELSE getOntapBaseUrl(clusterHost, clusterPort) \o <<"/api">> \o ep,
      body   |-> IF m = "GET" THEN Undefined ELSE Some(b),
      qs     |-> IF DOMAIN q = {} THEN Undefined ELSE Some(q) ]
RequestOptions(m, ep, b, q, uri) ==
    [ method |-> m,
      url    |-> IF uri # <<>> THEN uri
                 ELSE getOntapBaseUrl(clusterHost, clusterPort) \o <<"/api">> \o ep,
      body   |-> IF m \in {"GET", "DELETE"} THEN Undefined ELSE Some(b),
      qs     |-> IF DOMAIN q = {} THEN Undefined ELSE Some(q) ]

\* await this.helpers.httpRequestWithAuthentication(options) (line 77): the request is handed to
\* the HTTP helper once (the mutant hands it over twice).
httpRequestWithAuthenticationTwice(log, options) == Append(Append(log, options), options)
httpRequestWithAuthentication(log, options) == Append(log, options)

\* The error thrown for raw (the mutant keeps the raw message).
RequestFailureUnparsed(raw) == NodeApiError(raw, <<TemplateText(raw.message)>>)
\* The error ontapApiRequest throws when the HTTP helper raises raw (lines 79-83).
RequestFailure(raw) == NodeApiError(raw, parseOntapError(raw))

(***************************************************************************)
(* Inputs and environment                                                  *)
(***************************************************************************)
Methods == {"GET", "POST"}
Endpoints == {<<"/storage/volumes">>}
\* The caller's query: with and without max_records (0 is the falsy value),
\* with and without another parameter.
Queries ==
    { EmptyObject,
      "return_timeout" :> 15,
      "max_records" :> 0,
      "max_records" :> 50,
      ("max_records" :> 50) @@ ("return_timeout" :> 15) }

\* The links a page can carry in _links.next.href.
NextLinks ==
    {Undefined, Some(""), Some("/api/storage/volumes?start.uuid=a"),
     Some("/api/storage/volumes?start.uuid=b")}
\* The k-th page served holds up to two records, told apart by page and place.
RecordsOfPage(k) ==
    {Undefined, Some(<<>>), Some(<<[id |-> 10 * k + 1]>>),
     Some(<<[id |-> 10 * k + 1], [id |-> 10 * k + 2]>>)}
Pages(k) == { [records |-> r, next |-> l] : r \in RecordsOfPage(k), l \in NextLinks }

PendingStates == {"running", "queued", "paused"}
\* "completed" stands for any vocabulary the poller does not know.
ReportedStates == {Some(s) : s \in PendingStates \cup {"success", "failure", "completed"}}
                    \cup {Undefined}

\* What GET /api/cluster/jobs/{uuid} can answer: any state without a message,
\* and a failure with each kind of message.
JobReplies(uuid) ==
    { [uuid |-> uuid, state |-> st, message |-> Undefined] : st \in ReportedStates }
      \cup { [uuid |-> uuid, state |-> Some("failure"), message |-> msg] :
                msg \in {Undefined, Some(""), Some("disk full")} }

(***************************************************************************)
(* pollJobUntilComplete (GenericFunctions.ts 131-176)                      *)
(***************************************************************************)
\* Date.now() - startTime
Elapsed == now - startTime[1]

\* The loop condition (line 139).
KeepPollingLate == Elapsed <= timeoutMs
KeepPolling == Elapsed < timeoutMs

\* jobResponse.message || 'Job failed without error message' (line 155)
JobErrorMessageFixed(job) == "Job failed without error message"
JobErrorMessage(job) ==
    IF TruthyStr(job.message) THEN job.message[1] ELSE "Job failed without error message"

\* What the loop body does with a fetched job (lines 146-170).
JobVerdictLenient(job) ==
    CASE job.state = Some("success") -> "returned"
      [] job.state = Some("failure") -> "jobFailed"
      [] OTHER -> "sleep"
JobVerdictTypo(job) ==
    CASE job.state = Some("succeeded") -> "returned"
      [] job.state = Some("failure") -> "jobFailed"
      [] job.state \in {Some(s) : s \in PendingStates} -> "sleep"
      [] OTHER -> "unknownState"
JobVerdict(job) ==
    CASE job.state = Some("success") -> "returned"
      [] job.state = Some("failure") -> "jobFailed"
      [] job.state \in {Some(s) : s \in PendingStates} -> "sleep"
      [] OTHER -> "unknownState"

\* `${timeoutMs / 1000}`
SecondsText(ms) == IF ms % 1000 = 0 THEN <<ToString(ms \div 1000)>> ELSE <<ToString(ms), "/1000">>

JobFailedError(job) ==
    NodeApiError([message |-> JobErrorMessage(job)],
                 <<"ONTAP job failed: ", JobErrorMessage(job)>>)
UnknownStateError(job) ==
    NodeApiError([state |-> job.state], <<"Unknown job state: ", TemplateText(job.state)>>)
TimeoutError ==
    NodeApiError(EmptyObject,
                 <<"Job ", jobUuid, " did not complete within ">> \o SecondsText(timeoutMs)
                     \o <<" seconds">>)

NoOtherCall ==
    /\ pollPc = "idle"
    /\ walkPc = "idle"
    /\ reqPc = "idle"
    /\ asyncPc = "idle"
    /\ normPc = "idle"
    /\ sizePc = "idle"
    /\ filterPc = "idle"
    /\ cleanPc = "idle"
    /\ execPc = "idle"

\* How long a round trip of the poller takes: a few milliseconds in a direct
\* call; in a call made by handleAsyncResponse, whose timeout is five minutes,
\* the server is a slow one, so that the timeout is reached in a few polls.
Latencies == IF asyncPc = "polling" THEN {100000, 200000} ELSE 0..MaxLatency

\* The caller invokes pollJobUntilComplete(uuid, t, p).
PollCall(uuid, t, p) ==
    /\ NoOtherCall
    /\ pollPc' = "entry"
    /\ jobUuid' = uuid
    /\ timeoutMs' = t
    /\ pollIntervalMs' = p
    /\ UNCHANGED <<startTime, trace, observed, waited, lastLatency, lastSleep,
                   pollOutcome, pollResult, pollError>>
    /\ UNCHANGED <<ctxVars, notPollVars>>

\* const startTime = Date.now()  (line 137)
PollEnter ==
    /\ pollPc = "entry"
    /\ startTime' = Some(now)
    /\ pollPc' = "loop"
    /\ UNCHANGED <<jobUuid, timeoutMs, pollIntervalMs, trace, observed, waited,
                   lastLatency, lastSleep, pollOutcome, pollResult, pollError>>
    /\ UNCHANGED <<ctxVars, notPollVars>>

\* Loop top, condition true: the status request is handed to the HTTP helper
\* (lines 139-144).
PollIssueFetch ==
    /\ pollPc = "loop"
    /\ KeepPolling
    /\ sent' = httpRequestWithAuthentication(sent, RequestOptions("GET", <<"/cluster/jobs/", jobUuid>>,
                                                EmptyObject, EmptyObject, <<>>))
    /\ trace' = Append(trace, [ev |-> "fetch", at |-> Elapsed])
    /\ pollPc' = "fetch"
    /\ UNCHANGED <<clusterHost, clusterPort, raised, now>>
    /\ UNCHANGED <<jobUuid, timeoutMs, pollIntervalMs, startTime, observed, waited,
                   lastLatency, lastSleep, pollOutcome, pollResult, pollError>>
    /\ UNCHANGED notPollVars

\* Loop top, condition false: the throw after the loop (lines 173-175).
PollTimeout ==
    /\ pollPc = "loop"
    /\ ~KeepPolling
    /\ pollPc' = "done"
    /\ pollOutcome' = "timeout"
    /\ pollError' = Some(TimeoutError)
    /\ UNCHANGED <<jobUuid, timeoutMs, pollIntervalMs, startTime, trace, observed, waited,
                   lastLatency, lastSleep, pollResult>>
    /\ UNCHANGED <<ctxVars, notPollVars>>

\* The round trip ends with a job payload after latency ms; the rest of the
\* loop body runs up to the return, the throw or the start of the sleep
\* (lines 146-170).
PollFetchReturns(job, latency) ==
    /\ pollPc = "fetch"
    /\ now' = now + latency
    /\ lastLatency' = latency
    /\ observed' = Append(observed, job)
    /\ LET verdict == JobVerdict(job) IN
       CASE verdict = "returned" ->
              /\ pollPc' = "done"
              /\ pollOutcome' = "returned"
              /\ pollResult' = Some(job)
              /\ UNCHANGED <<pollError, trace>>
         [] verdict = "jobFailed" ->
              /\ pollPc' = "done"
              /\ pollOutcome' = "jobFailed"
              /\ pollError' = Some(JobFailedError(job))
              /\ UNCHANGED <<pollResult, trace>>
         [] verdict = "sleep" ->
              /\ pollPc' = "sleep"
              /\ trace' = Append(trace, [ev |-> "sleep", at |-> Elapsed + latency])
              /\ UNCHANGED <<pollOutcome, pollResult, pollError>>
         [] OTHER ->
              /\ pollPc' = "done"
              /\ pollOutcome' = "unknownState"
              /\ pollError' = Some(UnknownStateError(job))
              /\ UNCHANGED <<pollResult, trace>>
    /\ UNCHANGED <<clusterHost, clusterPort, sent, raised>>
    /\ UNCHANGED <<jobUuid, timeoutMs, pollIntervalMs, startTime, waited, lastSleep>>
    /\ UNCHANGED notPollVars

\* The round trip fails: ontapApiRequest throws and nothing in the poller
\* catches it (lines 140-144, 79-83).
PollFetchFails(raw, latency) ==
    /\ pollPc = "fetch"
    /\ now' = now + latency
    /\ lastLatency' = latency
    /\ pollPc' = "done"
    /\ pollOutcome' = "requestError"
    /\ pollError' = Some(RequestFailure(raw))
    /\ raised' = Append(raised, RequestFailure(raw))
    /\ UNCHANGED <<clusterHost, clusterPort, sent>>
    /\ UNCHANGED <<jobUuid, timeoutMs, pollIntervalMs, startTime, trace, observed, waited,
                   lastSleep, pollResult>>
    /\ UNCHANGED notPollVars

\* await sleep(pollIntervalMs) ends; `continue` goes back to the loop top
\* (lines 163-164).  A timer fires no earlier than asked.
PollWake(jitter) ==
    /\ pollPc = "sleep"
    /\ now' = now + pollIntervalMs + jitter
    /\ lastSleep' = pollIntervalMs + jitter
    /\ waited' = waited + pollIntervalMs + jitter
    /\ pollPc' = "loop"
    /\ UNCHANGED <<clusterHost, clusterPort, sent, raised>>
    /\ UNCHANGED <<jobUuid, timeoutMs, pollIntervalMs, startTime, trace, observed,
                   lastLatency, pollOutcome, pollResult, pollError>>
    /\ UNCHANGED notPollVars

NextPoll ==
    \/ \E uuid \in {"j1"}, t \in 0..MaxTimeout, p \in 1..MaxPoll : PollCall(uuid, t, p)
    \/ PollEnter
    \/ PollIssueFetch
    \/ PollTimeout
    \/ \E job \in JobReplies(jobUuid), latency \in Latencies : PollFetchReturns(job, latency)
    \/ \E raw \in RawErrors, latency \in Latencies : PollFetchFails(raw, latency)
    \/ \E jitter \in 0..MaxJitter : PollWake(jitter)

(***************************************************************************)
(* ontapApiRequestAllItems (GenericFunctions.ts 89-126)                    *)
(***************************************************************************)
\* query.max_records = query.max_records || 1000  (line 107): the value the
\* object holds after the assignment.
SeedMaxRecords(q) ==
    IF "max_records" \in DOMAIN q /\ q["max_records"] # 0
    THEN q
    ELSE ("max_records" :> DEFAULT_MAX_RECORDS) @@ q

\* `${baseUrl}${nextLink}`  (line 112)
PageUri(href) == getOntapBaseUrl(clusterHost, clusterPort) \o <<href>>

\* The request of the current iteration (lines 110-115).
WalkRequestKeepQuery ==
    IF TruthyStr(nextLink)
    THEN RequestOptions(method, <<>>, body, query, PageUri(nextLink[1]))
    ELSE RequestOptions(method, endpoint, body, query, <<>>)
WalkRequest ==
    IF TruthyStr(nextLink)
    THEN RequestOptions(method, <<>>, body, EmptyObject, PageUri(nextLink[1]))
    ELSE RequestOptions(method, endpoint, body, query, <<>>)

\* (responseData as IDataObject)[propertyName] || []  (line 118)
PageRecords(page) == IF page.records # <<>> THEN page.records[1] ELSE <<>>

\* returnData.push(...records)  (line 119)
AccumulateFront(acc, page) == PageRecords(page) \o acc
Accumulate(acc, page) == acc \o PageRecords(page)

\* responseData._links?.next?.href, and the loop condition on it
\* (lines 122-123).
ContinueWalkCapped(link) == TruthyStr(link) /\ Len(served) + 1 < 2
ContinueWalk(link) == TruthyStr(link)

\* What a failed page request makes of the call: nothing catches the error
\* (lines 109-125).
OnPageFailurePartial(err) ==
    [walkOutcome |-> "returned", walkResult |-> Some(returnData), walkError |-> Undefined]
OnPageFailure(err) ==
    [walkOutcome |-> "requestError", walkResult |-> Undefined, walkError |-> Some(err)]

\* The caller invokes ontapApiRequestAllItems(m, ep, b, q).
WalkCall(m, ep, b, q) ==
    /\ NoOtherCall
    /\ walkPc' = "entry"
    /\ method' = m
    /\ endpoint' = ep
    /\ body' = b
    /\ query' = q
    /\ query0' = q
    /\ UNCHANGED <<returnData, nextLink, served, walkOutcome, walkResult, walkError>>
    /\ UNCHANGED <<ctxVars, notWalkVars>>

\* Lines 98-107: the locals are set up and max_records is seeded in the
\* caller's query object.
WalkEnter ==
    /\ walkPc = "entry"
    /\ query' = SeedMaxRecords(query)
    /\ returnData' = <<>>
    /\ nextLink' = Undefined
    /\ walkPc' = "loop"
    /\ UNCHANGED <<method, endpoint, body, query0, served, walkOutcome, walkResult, walkError>>
    /\ UNCHANGED <<ctxVars, notWalkVars>>

\* Top of the do-while body: the request of this iteration is handed to the
\* HTTP helper (lines 110-115).  The model follows MaxRequests pages.
WalkIssue ==
    /\ walkPc = "loop"
    /\ Len(served) < MaxRequests
    /\ sent' = httpRequestWithAuthentication(sent, WalkRequest)
    /\ walkPc' = "await"
    /\ UNCHANGED <<clusterHost, clusterPort, raised, now>>
    /\ UNCHANGED <<method, endpoint, body, query, query0, returnData, nextLink, served,
                   walkOutcome, walkResult, walkError>>
    /\ UNCHANGED notWalkVars

\* The round trip ends with a page: its records are appended, its next link
\* is read, and the loop either goes round or the function returns
\* (lines 118-125).
WalkPageReturns(page) ==
    /\ walkPc = "await"
    /\ served' = Append(served, page)
    /\ returnData' = Accumulate(returnData, page)
    /\ nextLink' = page.next
    /\ IF ContinueWalk(page.next)
       THEN /\ walkPc' = "loop"
            /\ UNCHANGED <<walkOutcome, walkResult>>
       ELSE /\ walkPc' = "done"
            /\ walkOutcome' = "returned"
            /\ walkResult' = Some(Accumulate(returnData, page))
    /\ UNCHANGED <<method, endpoint, body, query, query0, walkError>>
    /\ UNCHANGED <<ctxVars, notWalkVars>>

\* The round trip fails: ontapApiRequest throws (lines 79-83) and the walker
\* has no handler.
WalkPageFails(raw) ==
    /\ walkPc = "await"
    /\ raised' = Append(raised, RequestFailure(raw))
    /\ walkPc' = "done"
    /\ walkOutcome' = OnPageFailure(RequestFailure(raw)).walkOutcome
    /\ walkResult' = OnPageFailure(RequestFailure(raw)).walkResult
    /\ walkError' = OnPageFailure(RequestFailure(raw)).walkError
    /\ UNCHANGED <<clusterHost, clusterPort, sent, now>>
    /\ UNCHANGED <<method, endpoint, body, query, query0, returnData, nextLink, served>>
    /\ UNCHANGED notWalkVars

NextWalk ==
    \/ \E m \in Methods, ep \in Endpoints, b \in {EmptyObject}, q \in Queries : WalkCall(m, ep, b, q)
    \/ WalkEnter
    \/ WalkIssue
    \/ \E page \in Pages(Len(served) + 1) : WalkPageReturns(page)
    \/ \E raw \in RawErrors : WalkPageFails(raw)

(***************************************************************************)
(* A single ontapApiRequest (GenericFunctions.ts 34-84).  The credentials  *)
(* and the node parameters are looked up before the try block (lines       *)
(* 42-46); the host may throw from either lookup.  The poller and the      *)
(* walker above are modelled from the point where the lookups have         *)
(* resolved.                                                               *)
(***************************************************************************)
ReqQueries == {EmptyObject, "return_timeout" :> 15}
NoArgs == [method |-> "", endpoint |-> <<>>, body |-> EmptyObject, query |-> EmptyObject,
           uri |-> <<>>]

\* A response of the server, as far as the core looks at it: some payload
\* field (uuid), the job reference, and the marker handleAsyncResponse adds
\* (_jobCompleted).
JobRef(uuid) == [uuid |-> uuid, state |-> Some("queued"), message |-> Undefined]
ApiResponse(uuid, job) == [uuid |-> uuid, job |-> job, jobCompleted |-> Undefined]
NoResponse == ApiResponse(Undefined, Undefined)
ApiResponses ==
    { ApiResponse(Some("x"), Undefined),
      ApiResponse(Undefined, Some(JobRef(Undefined))),
      ApiResponse(Undefined, Some(JobRef(Some("")))),
      ApiResponse(Some("x"), Some(JobRef(Some("j1")))) }

\* The failures the HTTP helper raises for a single request: those above and
\* one with a vendor error body.
RequestRawErrors ==
    RawErrors \cup
    { [error |-> Some([isArray |-> FALSE, message |-> Some("Volume is offline"),
                       code |-> Some("917927"), items |-> <<>>]),
       statusCode |-> Some(409), code |-> Undefined, message |-> Some("409 - conflict")] }

\* What the host throws when getCredentials (line 42) or getNodeParameter
\* (line 45, no fallback value) fails.
HostErrors ==
    { [name |-> "NodeOperationError", message |-> <<"Node does not have any credentials set">>],
      [name |-> "ApplicationError", message |-> <<"Could not get parameter">>] }

\* The catch block (lines 79-83): what a failure of the round trip makes of
\* the call.
OnHttpErrorRetry(raw) ==
    IF Len(sent) < 2
    THEN [pc |-> "entry", outcome |-> "none", error |-> Undefined]
    ELSE [pc |-> "done", outcome |-> "error", error |-> Some(RequestFailure(raw))]
OnHttpError(raw) ==
    [pc |-> "done", outcome |-> "error", error |-> Some(RequestFailure(raw))]

\* A node calls ontapApiRequest(m, ep, b, q).
ReqCall(m, ep, b, q) ==
    /\ NoOtherCall
    /\ reqPc' = "entry"
    /\ reqArgs' = [method |-> m, endpoint |-> ep, body |-> b, query |-> q, uri |-> <<>>]
    /\ reqArgs0' = [method |-> m, endpoint |-> ep, body |-> b, query |-> q, uri |-> <<>>]
    /\ UNCHANGED <<reqRaw, reqOutcome, reqResult, reqError>>
    /\ UNCHANGED <<ctxVars, pollVars, walkVars, asyncVars, normVars, otherVars>>

\* A lookup of lines 42-46 throws: nothing catches it, the call ends with the
\* host's error and no request has been sent.
ReqLookupFails(err) ==
    /\ reqPc = "entry"
    /\ reqPc' = "done"
    /\ reqOutcome' = "error"
    /\ reqError' = Some(err)
    /\ raised' = Append(raised, err)
    /\ UNCHANGED <<clusterHost, clusterPort, sent, now>>
    /\ UNCHANGED <<reqArgs, reqArgs0, reqRaw, reqResult>>
    /\ UNCHANGED <<pollVars, walkVars, asyncVars, normVars, otherVars>>

\* Lines 42-77: the options are built and handed to the HTTP helper.
ReqSend ==
    /\ reqPc = "entry"
    /\ sent' = httpRequestWithAuthentication(sent, RequestOptions(reqArgs.method, reqArgs.endpoint,
                                                reqArgs.body, reqArgs.query, reqArgs.uri))
    /\ reqPc' = "await"
    /\ UNCHANGED <<clusterHost, clusterPort, raised, now>>
    /\ UNCHANGED <<reqArgs, reqArgs0, reqRaw, reqOutcome, reqResult, reqError>>
    /\ UNCHANGED <<pollVars, walkVars, asyncVars, normVars, otherVars>>

\* The round trip ends with a response (line 78).
ReqReturns(resp) ==
    /\ reqPc = "await"
    /\ reqPc' = "done"
    /\ reqOutcome' = "returned"
    /\ reqResult' = Some(resp)
    /\ UNCHANGED <<reqArgs, reqArgs0, reqRaw, reqError>>
    /\ UNCHANGED <<ctxVars, pollVars, walkVars, asyncVars, normVars, otherVars>>

\* The HTTP helper raises raw (lines 79-83).
ReqFails(raw) ==
    /\ reqPc = "await"
    /\ reqRaw' = Some(raw)
    /\ reqPc' = OnHttpError(raw).pc
    /\ reqOutcome' = OnHttpError(raw).outcome
    /\ reqError' = OnHttpError(raw).error
    /\ raised' = raised \o OnHttpError(raw).error
    /\ UNCHANGED <<clusterHost, clusterPort, sent, now>>
    /\ UNCHANGED <<reqArgs, reqArgs0, reqResult>>
    /\ UNCHANGED <<pollVars, walkVars, asyncVars, normVars, otherVars>>

NextReq ==
    \/ \E m \in {"GET", "POST", "PATCH", "DELETE"}, ep \in Endpoints,
          b \in {EmptyObject, "size" :> 1024}, q \in ReqQueries :
          ReqCall(m, ep, b, q)
    \/ \E err \in HostErrors : ReqLookupFails(err)
    \/ ReqSend
    \/ \E resp \in ApiResponses : ReqReturns(resp)
    \/ \E raw \in RequestRawErrors : ReqFails(raw)

(***************************************************************************)
(* handleAsyncResponse (GenericFunctions.ts 181-211)                       *)
(***************************************************************************)
\* job && job.uuid  (lines 187-189)
HasJobUuid(resp) == resp.job # <<>> /\ TruthyStr(resp.job[1].uuid)

\* Which of the three returns the function takes (lines 189-210).
AsyncBranchAlwaysWait(resp, wait) ==
    IF HasJobUuid(resp) THEN "poll" ELSE "asIs"
AsyncBranchMarkAll(resp, wait) ==
    IF HasJobUuid(resp) /\ wait THEN "poll" ELSE "marked"
AsyncBranch(resp, wait) ==
    IF HasJobUuid(resp)
    THEN IF wait THEN "poll" ELSE "marked"
    ELSE "asIs"

\* { ...response, job: completedJob, _jobCompleted: true }  (lines 195-199)
CompletedResultKeepJob(resp, completedJob) == [resp EXCEPT !.jobCompleted = Some(TRUE)]
CompletedResult(resp, completedJob) ==
    [resp EXCEPT !.job = Some(completedJob), !.jobCompleted = Some(TRUE)]

\* { ...response, _jobCompleted: false }  (lines 203-206)
PendingResult(resp) == [resp EXCEPT !.jobCompleted = Some(FALSE)]

\* What the end of the awaited pollJobUntilComplete makes of the call
\* (lines 192-199): its value goes into the result, its error is not caught.
AfterPollSwallow ==
    IF pollOutcome = "returned"
    THEN [outcome |-> "returned", result |-> Some(CompletedResult(response, pollResult[1])),
          error |-> Undefined]
    ELSE [outcome |-> "returned", result |-> Some(PendingResult(response)),
          error |-> Undefined]
AfterPoll ==
    IF pollOutcome = "returned"
    THEN [outcome |-> "returned", result |-> Some(CompletedResult(response, pollResult[1])),
          error |-> Undefined]
    ELSE [outcome |-> "error", result |-> Undefined, error |-> pollError]

\* A node calls handleAsyncResponse(resp, wait).
AsyncCall(resp, wait) ==
    /\ NoOtherCall
    /\ asyncPc' = "entry"
    /\ response' = resp
    /\ response0' = resp
    /\ waitForCompletion' = wait
    /\ UNCHANGED <<asyncOutcome, asyncResult, asyncError>>
    /\ UNCHANGED <<ctxVars, pollVars, walkVars, reqVars, normVars, otherVars>>

\* Lines 187-210 up to the first await or return: the job reference is looked
\* at; the poller is invoked with its default timeout and interval, or the
\* function returns.
AsyncDispatch ==
    /\ asyncPc = "entry"
    /\ LET branch == AsyncBranch(response, waitForCompletion) IN
       CASE branch = "poll" ->
              /\ asyncPc' = "polling"
              /\ pollPc' = "entry"
              /\ jobUuid' = response.job[1].uuid[1]
              /\ timeoutMs' = DEFAULT_JOB_TIMEOUT_MS
              /\ pollIntervalMs' = DEFAULT_POLL_INTERVAL_MS
              /\ UNCHANGED <<asyncOutcome, asyncResult>>
         [] branch = "marked" ->
              /\ asyncPc' = "done"
              /\ asyncOutcome' = "returned"
              /\ asyncResult' = Some(PendingResult(response))
              /\ UNCHANGED <<pollPc, jobUuid, timeoutMs, pollIntervalMs>>
         [] OTHER ->
              /\ asyncPc' = "done"
              /\ asyncOutcome' = "returned"
              /\ asyncResult' = Some(response)
              /\ UNCHANGED <<pollPc, jobUuid, timeoutMs, pollIntervalMs>>
    /\ UNCHANGED <<response, response0, waitForCompletion, asyncError>>
    /\ UNCHANGED <<startTime, trace, observed, waited, lastLatency, lastSleep,
                   pollOutcome, pollResult, pollError>>
    /\ UNCHANGED <<ctxVars, walkVars, reqVars, normVars, otherVars>>

\* The awaited poller has ended (lines 192-199).
AsyncResume ==
    /\ asyncPc = "polling"
    /\ pollPc = "done"
    /\ asyncPc' = "done"
    /\ asyncOutcome' = AfterPoll.outcome
    /\ asyncResult' = AfterPoll.result
    /\ asyncError' = AfterPoll.error
    /\ UNCHANGED <<response, response0, waitForCompletion>>
    /\ UNCHANGED <<ctxVars, pollVars, walkVars, reqVars, normVars, otherVars>>

NextAsync ==
    \/ \E resp \in ApiResponses, wait \in BOOLEAN : AsyncCall(resp, wait)
    \/ AsyncDispatch
    \/ AsyncResume

(***************************************************************************)
(* parseOntapError applied to a raw error                                  *)
(***************************************************************************)
NestedObject(message, code) ==
    [isArray |-> FALSE, message |-> message, code |-> code, items |-> <<>>]
NestedArray(items) ==
    [isArray |-> TRUE, message |-> Undefined, code |-> Undefined, items |-> items]
NestedErrors ==
    {Undefined}
      \cup { Some(NestedObject(m, c)) : m \in {Undefined, Some(""), Some("x")},
                                        c \in {Undefined, Some("917927")} }
      \cup { Some(NestedArray(items)) :
               items \in { <<>>, <<[message |-> Some("first")]>>,
                           <<[message |-> Some("first")], [message |-> Undefined]>> } }
\* 404 is in the status table, 418 is not; "917927" is in the vendor table,
\* "ECONNREFUSED" is not.
AllRawErrors ==
    { [error |-> e, statusCode |-> sc, code |-> c, message |-> m] :
        e \in NestedErrors,
        sc \in {Undefined, Some(404), Some(418)},
        c \in {Undefined, Some("917927"), Some("ECONNREFUSED")},
        m \in {Undefined, Some("boom")} }

\* The parameter is declared `unknown` (line 216): any value can be passed.
\* kind tells null and undefined from a mapping; raw is the mapping's content;
\* nullEntry says that the last entry of a nested sequence is null instead of
\* a mapping; messageIsString says whether the top-level message is a string
\* (when it is not, raw.message holds its text, e.g. "42" for 42).
RawValue(kind, raw, nullEntry, messageIsString) ==
    [kind |-> kind, raw |-> raw, nullEntry |-> nullEntry, messageIsString |-> messageIsString]
EmptyRaw == RawError(Undefined, Undefined, Undefined)
NoRawValue == RawValue("undefined", EmptyRaw, FALSE, TRUE)
AnyRawErrors ==
    { RawValue(k, EmptyRaw, FALSE, TRUE) : k \in {"null", "undefined"} }
      \cup { RawValue("object", r, FALSE, TRUE) : r \in AllRawErrors }
      \cup { RawValue("object", r, TRUE, TRUE) :
               r \in {x \in AllRawErrors :
                        x.error # <<>> /\ x.error[1].isArray /\ Len(x.error[1].items) = 2} }
      \cup { RawValue("object", [r EXCEPT !.message = Some("42")], FALSE, FALSE) :
               r \in {x \in AllRawErrors : x.message # <<>>} }

\* How a call parseOntapError(v) ends: with a string, with a value that is
\* not a string, or with a TypeError.  err.error of null or undefined throws
\* (line 220); e.message of a null entry throws inside map (line 231); the
\* template of line 226, join and the two tables give strings; err.message
\* is returned as it is (line 279).
parseOntapErrorOutcome(v) ==
    IF v.kind # "object" THEN "raised"
    ELSE LET err == v.raw
             ontapError == err.error IN
         IF ontapError # <<>> /\ ~ontapError[1].isArray /\ TruthyStr(ontapError[1].message)
         THEN "string"
         ELSE IF ontapError # <<>> /\ ontapError[1].isArray
         THEN IF v.nullEntry THEN "raised" ELSE "string"
         ELSE IF TruthyNum(err.statusCode) /\ err.statusCode[1] \in DOMAIN statusCodeMap
         THEN "string"
         ELSE IF TruthyStr(err.code) /\ err.code[1] \in DOMAIN errorCodeMap
         THEN "string"
         ELSE IF TruthyStr(err.message)
         THEN IF v.messageIsString THEN "string" ELSE "nonString"
         ELSE "string"

\* parseOntapError(v) is called and returns or throws.
NormCall(v) ==
    /\ NoOtherCall
    /\ normArg' = v
    /\ normOutcome' = parseOntapErrorOutcome(v)
    /\ normPc' = IF parseOntapErrorOutcome(v) = "raised" THEN "raised" ELSE "done"
    /\ normIn' = IF v.kind = "object" THEN Some(v.raw) ELSE Undefined
    /\ normOut' = IF parseOntapErrorOutcome(v) = "raised" THEN Undefined
                  ELSE Some(parseOntapError(v.raw))
    /\ UNCHANGED <<ctxVars, pollVars, walkVars, reqVars, asyncVars, otherVars>>



(***************************************************************************)
(* parseSize (GenericFunctions.ts 331-350).  A string is the sequence of   *)
(* its characters.  A JavaScript number is an IEEE double: the number      *)
(* parsed is rounded to 53 significant bits before it is multiplied.       *)
(* Naturals beyond the integers of the checker are sequences of decimal    *)
(* digits, least significant first, zero being the empty sequence.         *)
(***************************************************************************)
DigitChars == <<"0", "1", "2", "3", "4", "5", "6", "7", "8", "9">>
\* The characters \s and trim() remove, as far as the inputs here hold them.
Whitespace == {" ", "\t"}
DigitValue(c) == (CHOOSE i \in DOMAIN DigitChars : DigitChars[i] = c) - 1
\* String.prototype.toUpperCase, character by character
toUpperCase(str) ==
    LET LowerLetters == <<"a", "b", "c", "d", "e", "f", "g", "h", "i", "j", "k", "l", "m",
                          "n", "o", "p", "q", "r", "s", "t", "u", "v", "w", "x", "y", "z">>
        UpperLetters == <<"A", "B", "C", "D", "E", "F", "G", "H", "I", "J", "K", "L", "M",
                          "N", "O", "P", "Q", "R", "S", "T", "U", "V", "W", "X", "Y", "Z">>
        UpperChar(c) ==
            IF \E i \in DOMAIN LowerLetters : LowerLetters[i] = c
            THEN UpperLetters[CHOOSE i \in DOMAIN LowerLetters : LowerLetters[i] = c]
            ELSE c
    IN  [i \in DOMAIN str |-> UpperChar(str[i])]

RECURSIVE TrimStart(_)
TrimStart(str) ==
    IF str # <<>> /\ Head(str) \in Whitespace THEN TrimStart(Tail(str)) ELSE str
\* String.prototype.trim
trim(str) ==
    LET inked == {i \in 1..Len(str) : str[i] \notin Whitespace} IN
    IF inked = {} THEN <<>>
    ELSE SubSeq(TrimStart(str), 1,
                (CHOOSE i \in inked : \A j \in inked : j <= i)
                    - (Len(str) - Len(TrimStart(str))))

\* The length of the longest prefix of digits: what \d+ consumes.
RECURSIVE DigitRun(_)
DigitRun(str) ==
    IF str # <<>> /\ (\E i \in DOMAIN DigitChars : DigitChars[i] = Head(str)) THEN 1 + DigitRun(Tail(str)) ELSE 0

\* ---- naturals as digit sequences ----
RECURSIVE BigStrip(_)
BigStrip(a) ==
    IF a # <<>> /\ a[Len(a)] = 0 THEN BigStrip(SubSeq(a, 1, Len(a) - 1)) ELSE a
BigOfChars(chars) ==
    BigStrip([i \in 1..Len(chars) |-> DigitValue(chars[Len(chars) + 1 - i])])
BigToChars(a) ==
    IF a = <<>> THEN <<"0">>
    ELSE [i \in 1..Len(a) |-> DigitChars[a[Len(a) + 1 - i] + 1]]
RECURSIVE BigMulCarry(_, _, _)
BigMulCarry(a, m, carry) ==
    IF a = <<>>
    THEN IF carry = 0 THEN <<>> ELSE <<carry % 10>> \o BigMulCarry(<<>>, m, carry \div 10)
    ELSE <<(Head(a) * m + carry) % 10>>
           \o BigMulCarry(Tail(a), m, (Head(a) * m + carry) \div 10)
BigMulSmall(a, m) == BigStrip(BigMulCarry(a, m, 0))
\* floor(a / d) and a mod d for a small divisor d, most significant digit
\* first; rem is the remainder carried down.
RECURSIVE BigQuotFrom(_, _, _, _)
BigQuotFrom(a, i, d, rem) ==
    IF i = 0 THEN <<>>
    ELSE BigQuotFrom(a, i - 1, d, (rem * 10 + a[i]) % d) \o <<(rem * 10 + a[i]) \div d>>
RECURSIVE BigModFrom(_, _, _, _)
BigModFrom(a, i, d, rem) ==
    IF i = 0 THEN rem ELSE BigModFrom(a, i - 1, d, (rem * 10 + a[i]) % d)
BigDiv(a, d) == BigStrip(BigQuotFrom(a, Len(a), d, 0))
RECURSIVE BigAddOne(_)
BigAddOne(a) ==
    IF a = <<>> THEN <<1>>
    ELSE IF Head(a) < 9 THEN <<Head(a) + 1>> \o Tail(a)
    ELSE <<0>> \o BigAddOne(Tail(a))
RECURSIVE Pow2(_)
Pow2(n) == IF n = 0 THEN 1 ELSE 2 * Pow2(n - 1)
RECURSIVE Pow10(_)
Pow10(n) == IF n = 0 THEN 1 ELSE 10 * Pow10(n - 1)
\* a * 2^n and floor(a / 2^n), ten bits at a time
RECURSIVE BigTimes1024(_, _)
BigTimes1024(a, k) == IF k = 0 THEN a ELSE BigMulSmall(BigTimes1024(a, k - 1), 1024)
RECURSIVE BigOver1024(_, _)
BigOver1024(a, k) == IF k = 0 THEN a ELSE BigDiv(BigOver1024(a, k - 1), 1024)
BigShiftLeft(a, n) == BigMulSmall(BigTimes1024(a, n \div 10), Pow2(n % 10))

\* ---- the double nearest to a decimal number ----
\* A positive double is mant / 2^exp with 2^52 <= mant < 2^53.  The numbers
\* parsed here have few digits: n and d below are integers of the checker.
MantissaBits == 53
RECURSIVE IntOfChars(_)
IntOfChars(chars) ==
    IF chars = <<>> THEN 0
    ELSE 10 * IntOfChars(SubSeq(chars, 1, Len(chars) - 1)) + DigitValue(chars[Len(chars)])
RECURSIVE BitLength(_)
BitLength(n) == IF n = 0 THEN 0 ELSE 1 + BitLength(n \div 2)
\* the e for which n * 2^e / d has exactly MantissaBits bits, for n, d >= 1
BinaryExponent(n, d) ==
    LET Log2Floor == IF n * Pow2(BitLength(d)) >= d * Pow2(BitLength(n))
                     THEN BitLength(n) - BitLength(d)
                     ELSE BitLength(n) - BitLength(d) - 1
    IN  (MantissaBits - 1) - Log2Floor
\* parseFloat of digits with an optional fraction: int.frac = n / 10^Len(frac),
\* rounded to nearest, ties to even.
parseFloat(int, frac) ==
    LET n == IntOfChars(int \o frac)
        d == Pow10(Len(frac))
    IN  IF n = 0 THEN [mant |-> <<>>, exp |-> 0]
        ELSE LET e == BinaryExponent(n, d)
                 t == BigShiftLeft(BigOfChars(int \o frac), e)
                 q == BigDiv(t, d)
                 r == BigModFrom(t, Len(t), d, 0)
                 up == 2 * r > d \/ (2 * r = d /\ q # <<>> /\ Head(q) % 2 = 1)
             IN  [mant |-> IF up THEN BigAddOne(q) ELSE q, exp |-> e]

\* The units of the regular expression and of the multipliers table
\* (lines 341-348); multipliers gives k for the multiplier 1024 ** k.
SizeUnits == {<<"B">>, <<"K", "B">>, <<"M", "B">>, <<"G", "B">>, <<"T", "B">>, <<"P", "B">>}
multipliers(unit) ==
    CASE unit = <<"B">> -> 0 [] unit = <<"K", "B">> -> 1 [] unit = <<"M", "B">> -> 2
      [] unit = <<"G", "B">> -> 3 [] unit = <<"T", "B">> -> 4 [] unit = <<"P", "B">> -> 5
\* Math.floor(value * 1024 ** k): the product of a double by a power of two
\* is exact.
FloorTimes(value, k) ==
    IF 10 * k >= value.exp
    THEN BigShiftLeft(value.mant, 10 * k - value.exp)
    ELSE BigDiv(BigOver1024(value.mant, (value.exp - 10 * k) \div 10),
                Pow2((value.exp - 10 * k) % 10))

\* sizeStr.trim().match(/^(\d+(?:\.\d+)?)\s*(B|KB|MB|GB|TB|PB)?$/i)
\* (line 332): <<>> for null, else the two groups.
SizeMatchNoTrim(str) ==
    LET intLen == DigitRun(str)
        rest1 == SubSeq(str, intLen + 1, Len(str))
        fracLen == IF rest1 # <<>> /\ Head(rest1) = "." THEN DigitRun(Tail(rest1)) ELSE 0
        rest2 == IF fracLen > 0 THEN SubSeq(rest1, fracLen + 2, Len(rest1)) ELSE rest1
        rest3 == rest2
    IN  IF intLen = 0 \/ ~(rest3 = <<>> \/ toUpperCase(rest3) \in SizeUnits)
        THEN <<>>
        ELSE << [ int  |-> SubSeq(str, 1, intLen),
                  frac |-> IF fracLen > 0 THEN SubSeq(rest1, 2, fracLen + 1) ELSE <<>>,
                  unit |-> IF rest3 = <<>> THEN Undefined ELSE Some(rest3) ] >>
SizeMatch(str) ==
    LET t == trim(str)
        intLen == DigitRun(t)
        rest1 == SubSeq(t, intLen + 1, Len(t))
        fracLen == IF rest1 # <<>> /\ Head(rest1) = "." THEN DigitRun(Tail(rest1)) ELSE 0
        rest2 == IF fracLen > 0 THEN SubSeq(rest1, fracLen + 2, Len(rest1)) ELSE rest1
        rest3 == TrimStart(rest2)
    IN  IF intLen = 0 \/ ~(rest3 = <<>> \/ toUpperCase(rest3) \in SizeUnits)
        THEN <<>>
        ELSE << [ int  |-> SubSeq(t, 1, intLen),
                  frac |-> IF fracLen > 0 THEN SubSeq(rest1, 2, fracLen + 1) ELSE <<>>,
                  unit |-> IF rest3 = <<>> THEN Undefined ELSE Some(rest3) ] >>

\* parseSize(sizeStr): the format error of line 334, or the number of line 349.
parseSize(str) ==
    LET match == SizeMatch(str) IN
    IF match = <<>>
    THEN [outcome |-> "formatError", value |-> Undefined]
    ELSE LET value == parseFloat(match[1].int, match[1].frac)
             unit == toUpperCase(IF match[1].unit = <<>> THEN <<"B">> ELSE match[1].unit[1])
         IN  [outcome |-> "returned",
              value |-> Some(BigToChars(FloorTimes(value, multipliers(unit))))]

\* The strings passed in this model: padding, a number or something like
\* one, padding, a unit or something like one, padding.
SizeTexts ==
    LET SizePads == {<<>>, <<" ">>}
        SizeNumberTexts ==
            { <<>>, <<"0">>, <<"1">>, <<"5", "0", "0">>, <<"1", "0", "0">>, <<"1", ".", "5">>,
              <<"0", ".", "5", "4">>, <<"1", ".">>, <<".", "5">>, <<"-", "1">>,
              <<"1", "e", "3">> }
        SizeUnitTexts ==
            SizeUnits \cup { <<>>, <<"k", "b">>, <<"G", "b">>, <<"K">>, <<"X", "B">>,
                             <<"G", "i", "B">>, <<"G", "B", "s">> }
    IN  { pre \o num \o mid \o unit \o post :
            pre \in SizePads, num \in SizeNumberTexts, mid \in SizePads,
            unit \in SizeUnitTexts, post \in SizePads }
          \cup { <<"b", "o", "g", "u", "s">> }

\* parseSize(str) is called and returns or throws.
ParseSizeCall(str) ==
    /\ NoOtherCall
    /\ sizePc' = "done"
    /\ sizeStr' = str
    /\ LET result == parseSize(str) IN
          /\ sizeOutcome' = result.outcome
          /\ sizeValue' = result.value
    /\ UNCHANGED <<coreVars, filterVars, cleanVars, execVars>>

(***************************************************************************)
(* parseApiFilters (GenericFunctions.ts 358-384)                           *)
(* A text is its sequence of characters; the query object is a function    *)
(* from field texts to value texts.                                        *)
(***************************************************************************)
\* String.prototype.indexOf for a one-character needle: 0-based, -1 if absent.
indexOf(str, ch) ==
    IF \E i \in 1..Len(str) : str[i] = ch
    THEN (CHOOSE i \in 1..Len(str) : str[i] = ch /\ \A j \in 1..(i - 1) : str[j] # ch) - 1
    ELSE -1
\* String.prototype.substring(start, end), on 0-based indices.
substring(str, start, end) == SubSeq(str, start + 1, end)
\* String.prototype.split for a one-character separator.
RECURSIVE split(_, _)
split(str, sep) ==
    LET at == indexOf(str, sep) IN
    IF at = -1 THEN <<str>>
    ELSE <<substring(str, 0, at)>> \o split(substring(str, at + 1, Len(str)), sep)
\* filterString.split(',').map(f => f.trim()).filter(f => f)
FilterClauses(filterString) ==
    LET trimmed == [i \in 1..Len(split(filterString, ",")) |-> trim(split(filterString, ",")[i])]
    IN SelectSeq(trimmed, LAMBDA f : f # <<>>)
\* qs[field] = value
SetField(qs, field, value) ==
    [k \in DOMAIN qs \cup {field} |-> IF k = field THEN value ELSE qs[k]]
\* One turn of the loop over the clauses (the mutant splits at the last '=').
FilterStepLastEq(qs, filter) ==
    LET rev == [i \in 1..Len(filter) |-> filter[Len(filter) + 1 - i]]
        eqIndex == IF indexOf(rev, "=") = -1 THEN -1 ELSE Len(filter) - 1 - indexOf(rev, "=")
    IN IF eqIndex = -1 THEN qs
       ELSE SetField(qs, trim(substring(filter, 0, eqIndex)), trim(substring(filter, eqIndex + 1, Len(filter))))
FilterStep(qs, filter) ==
    LET eqIndex == indexOf(filter, "=") IN
    IF eqIndex = -1 THEN qs
    ELSE LET field == trim(substring(filter, 0, eqIndex))
             value == trim(substring(filter, eqIndex + 1, Len(filter)))
         IN IF field # <<>> THEN SetField(qs, field, value) ELSE qs
RECURSIVE FilterLoop(_, _)
FilterLoop(qs, filters) ==
    IF filters = <<>> THEN qs
    ELSE FilterLoop(FilterStep(qs, Head(filters)), Tail(filters))
parseApiFilters(filterString) ==
    IF filterString = <<>> \/ trim(filterString) = <<>> THEN EmptyObject
    ELSE FilterLoop(EmptyObject, FilterClauses(filterString))

\* Texts handed to parseApiFilters: up to MaxClauses clauses joined by commas.
MaxClauses == 2
FilterClauseTexts ==
    { <<>>, <<" ">>, <<"a", "=", "1">>, <<" ", "a", " ", "=", " ", "1", " ">>,
      <<"a", "=", "2">>, <<"s", "=", "!", "x">>, <<"n", "=", ">", "1">>,
      <<"n", "=", "<", "=", "1">>, <<"t", "=", "r", "*", "|", "w">>, <<"a">>,
      <<"=", "x">>, <<"a", "=">> }
RECURSIVE JoinedClauses(_)
JoinedClauses(n) ==
    IF n = 1 THEN FilterClauseTexts
    ELSE { head \o <<",">> \o clause : head \in JoinedClauses(n - 1), clause \in FilterClauseTexts }

\* parseApiFilters(filterString) is called and returns.
ParseApiFiltersCall(filterString) ==
    /\ NoOtherCall
    /\ filterPc' = "done"
    /\ filterStr' = filterString
    /\ filterQs' = parseApiFilters(filterString)
    /\ UNCHANGED <<coreVars, sizeVars, cleanVars, execVars>>

(***************************************************************************)
(* cleanObject (GenericFunctions.ts 299-314)                               *)
(* A value of a mapping is a record with one field, named after its        *)
(* JavaScript type and holding its content (a string for the scalars, a    *)
(* sequence of values for an array, a function from keys to values for an  *)
(* object).                                                                *)
(***************************************************************************)
JsUndefined == [undefined |-> ""]
JsNull == [null |-> ""]
JsString(text) == [string |-> text]
JsNumber(digits) == [number |-> digits]
JsBoolean(word) == [boolean |-> word]
JsArray(items) == [array |-> items]
JsObject(fields) == [object |-> fields]
\* typeof value, with "array" for an array, "null" for null
TypeOf(value) == CHOOSE t \in DOMAIN value : TRUE

\* value !== undefined && value !== null && value !== ''
IsSet(value) == value # JsUndefined /\ value # JsNull /\ value # JsString("")

RECURSIVE cleanObjectFalsy(_)
cleanObjectFalsy(obj) ==
    LET Truthy(value) == IsSet(value) /\ value # JsNumber("0") /\ value # JsBoolean("false")
        kept == {key \in DOMAIN obj :
                    /\ Truthy(obj[key])
                    /\ TypeOf(obj[key]) = "object" => DOMAIN cleanObjectFalsy(obj[key].object) # {}}
    IN [key \in kept |->
           IF TypeOf(obj[key]) = "object" THEN JsObject(cleanObjectFalsy(obj[key].object)) ELSE obj[key]]
RECURSIVE cleanObject(_)
cleanObject(obj) ==
    LET kept == {key \in DOMAIN obj :
                    /\ IsSet(obj[key])
                    /\ TypeOf(obj[key]) = "object" => DOMAIN cleanObject(obj[key].object) # {}}
    IN [key \in kept |->
           IF TypeOf(obj[key]) = "object" THEN JsObject(cleanObject(obj[key].object)) ELSE obj[key]]

\* Mappings handed to cleanObject: a scalar or array under "a", and under "e"
\* one of these or a mapping of the same shape, nested up to MaxNesting deep;
\* and the mapping of the documentation.
MaxNesting == 1
RECURSIVE NestedObjects(_)
NestedObjects(depth) ==
    LET LeafValues ==
            { JsUndefined, JsNull, JsString(""), JsString("x"), JsNumber("0"),
              JsBoolean("false"), JsArray(<<JsNumber("1"), JsNumber("2")>>),
              JsArray(<<JsNull, JsString(""), JsObject(EmptyObject)>>) }
        inner == IF depth = 0 THEN {} ELSE {JsObject(obj) : obj \in NestedObjects(depth - 1)}
    IN { [key \in keys |-> IF key = "a" THEN a ELSE e] :
            keys \in SUBSET {"a", "e"}, a \in LeafValues, e \in LeafValues \cup inner }
DocumentedObject ==
    [key \in {"a", "b", "c", "e", "g"} |->
        CASE key = "a" -> JsString("")
          [] key = "b" -> JsNull
          [] key = "c" -> JsObject([k \in {"d"} |-> JsString("")])
          [] key = "e" -> JsObject([k \in {"f"} |-> JsString("x")])
          [] key = "g" -> JsArray(<<JsNumber("1"), JsNumber("2")>>)]

\* cleanObject(obj) is called and returns.
CleanObjectCall(obj) ==
    /\ NoOtherCall
    /\ cleanPc' = "done"
    /\ cleanArg' = obj
    /\ cleanResult' = cleanObject(obj)
    /\ UNCHANGED <<coreVars, sizeVars, filterVars, execVars>>

(***************************************************************************)
(* execute of a node (NetAppOntapStorage, credentials file 1339-1909;      *)
(* NetAppOntapCluster.node.ts 759-919)                                     *)
(* The loop over the input items, for the operations that resolve a        *)
(* resource locator, parse a size and send a mutating request.  The        *)
(* requests of an execution are logged in `issued`, each with the item it  *)
(* was made for; handleAsyncResponse is followed as one await.             *)
(***************************************************************************)
\* The operations followed.  resolver: how the target's identifier is found
\* ("unlessUuid": resolveVolumeId; "ifName": the lookup of the Cluster node;
\* "none": locator.value or no target).  size: whether a size is parsed
\* ("always"; "ifSet": only a non-empty string; "never").
NodeOperations ==
    { [name |-> "volume.create", resolver |-> "none", size |-> "always", method |-> "POST"],
      [name |-> "volume.update", resolver |-> "unlessUuid", size |-> "ifSet", method |-> "PATCH"],
      [name |-> "volume.delete", resolver |-> "unlessUuid", size |-> "never", method |-> "DELETE"],
      [name |-> "volume.resize", resolver |-> "unlessUuid", size |-> "always", method |-> "PATCH"],
      [name |-> "quota.create", resolver |-> "none", size |-> "ifSet", method |-> "POST"],
      [name |-> "quota.update", resolver |-> "none", size |-> "ifSet", method |-> "PATCH"],
      [name |-> "node.update", resolver |-> "ifName", size |-> "never", method |-> "PATCH"] }
NoOperation == [name |-> "", resolver |-> "none", size |-> "never", method |-> ""]

\* if (locator.mode === 'uuid') return locator.value  (Storage 1357-1359);
\* if (nodeLocator.mode === 'name') { ...lookup... }  (Cluster 785)
NeedsLookupNever(op, locator) == FALSE
NeedsLookup(op, locator) ==
    CASE op.resolver = "unlessUuid" -> locator.mode # "uuid"
      [] op.resolver = "ifName" -> locator.mode = "name"
      [] OTHER -> FALSE

\* Whether the operation calls parseSize on the item's size: always, or under
\* if (updateFields.autosizeMax), if (spaceLimit).
ParsesSize(op, size) == op.size = "always" \/ (op.size = "ifSet" /\ size # <<>>)

\* throw new Error(`Invalid size format: ${sizeStr}. ...`)  (GenericFunctions 334)
FormatError(size) ==
    [name |-> "Error",
     message |-> <<"Invalid size format: ">> \o size
                    \o <<". Use format like \"100GB\" or \"1TB\"">>]
\* throw new Error(`Volume "${locator.value}" not found`)  (Storage 1364, Cluster 788)
NotFoundError(op, value) ==
    [name |-> "Error",
     message |-> <<IF op.resolver = "ifName" THEN "Node" ELSE "Volume", " \"", value,
                   "\" not found">>]

\* The catch block of the loop (Storage 1898-1904, Cluster 911-917): what is
\* pushed to returnData and whether the error is thrown again.
OnItemErrorSwallow(err, item, continue) ==
    [push |-> <<>>, rethrow |-> FALSE]
OnItemError(err, item, continue) ==
    IF continue
    THEN [push |-> <<[json |-> [error |-> err.message], pairedItem |-> item]>>,
          rethrow |-> FALSE]
    ELSE [push |-> <<>>, rethrow |-> TRUE]

\* The entry pushed for an item that succeeded (Storage 1893-1897), with the
\* replacement made by the delete operations (1494-1496).
ItemResult(op, id, resp) ==
    IF op.method = "DELETE" /\ resp.job = <<>>
    THEN [success |-> TRUE, deleted |-> id]
    ELSE resp

\* Inputs: the items' parameters, and what the server answers.
MaxItems == 2
SizeGood == <<"1", "0", "0", "G", "B">>
SizeBad == <<"b", "o", "g", "u", "s">>
ItemParameters(op) ==
    { [locator |-> l, size |-> sz] :
        l \in { [mode |-> m, value |-> "v1"] :
                  m \in IF op.resolver = "none" THEN {"uuid"} ELSE {"uuid", "name"} },
        sz \in (CASE op.size = "never" -> {<<>>}
                  [] op.size = "ifSet" -> {<<>>, SizeBad}
                  [] OTHER -> {SizeGood, SizeBad}) }
RECURSIVE ItemLists(_, _)
ItemLists(op, n) ==
    IF n = 0 THEN {<<>>}
    ELSE { Append(its, item) : its \in ItemLists(op, n - 1), item \in ItemParameters(op) }
\* A lookup is answered by one page, or by a page with a next link and a last
\* page.
LookupPages(first) ==
    IF first
    THEN { [records |-> Some(<<>>), next |-> Undefined],
           [records |-> Some(<<[uuid |-> "u1"], [uuid |-> "u2"]>>), next |-> Undefined],
           [records |-> Some(<<>>), next |-> Some("/api/storage/volumes?start=2")] }
    ELSE { [records |-> Some(<<[uuid |-> "u3"]>>), next |-> Undefined] }
MutationResponses ==
    { ApiResponse(Some("x"), Undefined), ApiResponse(Some("x"), Some(JobRef(Some("j1")))) }
FinishedJobs ==
    { [uuid |-> Some("j1"), state |-> Some("success"), message |-> Undefined],
      [uuid |-> Some("j1"), state |-> Some("failure"), message |-> Some("disk full")] }
\* parseSize on the sizes of the items.
ParsedSizes == [size \in {<<>>, SizeGood, SizeBad} |-> parseSize(size)]

\* The loop goes on with the next item, or the function returns [returnData].
Advance(output) ==
    /\ itemIndex' = itemIndex + 1
    /\ IF itemIndex + 1 > Len(execItems)
       THEN /\ execPc' = "done"
            /\ execOutcome' = "returned"
            /\ execResult' = Some(output)
       ELSE /\ execPc' = "item"
            /\ UNCHANGED <<execOutcome, execResult>>
    /\ UNCHANGED execError

\* An error raised in the try block reaches the catch block.
Caught(err) ==
    LET handled == OnItemError(err, itemIndex, continueOnFail) IN
    /\ failed' = Append(failed, [item |-> itemIndex, error |-> err])
    /\ outputData' = outputData \o handled.push
    /\ IF handled.rethrow
       THEN /\ execPc' = "done"
            /\ execOutcome' = "thrown"
            /\ execError' = Some(err)
            /\ UNCHANGED <<itemIndex, execResult>>
       ELSE Advance(outputData \o handled.push)
    /\ UNCHANGED <<issued, volumes, resolved, pending>>

\* The end of the try block: the item's result is pushed.
Pushed(json) ==
    /\ outputData' = Append(outputData, [json |-> json, pairedItem |-> itemIndex])
    /\ Advance(Append(outputData, [json |-> json, pairedItem |-> itemIndex]))
    /\ UNCHANGED <<issued, volumes, resolved, pending, failed>>

\* From the point where the target's identifier is known to the mutating
\* request: the body is built, parseSize included, and the request is sent.
Proceed(id) ==
    LET item == execItems[itemIndex] IN
    IF ParsesSize(operation, item.size) /\ ParsedSizes[item.size].outcome = "formatError"
    THEN /\ Caught(FormatError(item.size))
    ELSE /\ issued' = Append(issued, [item |-> itemIndex, method |-> operation.method,
                                      target |-> Some(id)])
         /\ resolved' = Some(id)
         /\ execPc' = "mutate"
         /\ UNCHANGED <<itemIndex, volumes, pending, failed, outputData,
                        execOutcome, execResult, execError>>

\* execute() is called on the items, for one operation.
ExecCall(op, its, continue) ==
    /\ NoOtherCall
    /\ operation' = op
    /\ execItems' = its
    /\ continueOnFail' = continue
    /\ itemIndex' = 1
    /\ IF its = <<>>
       THEN execPc' = "done" /\ execOutcome' = "returned" /\ execResult' = Some(<<>>)
       ELSE execPc' = "item" /\ UNCHANGED <<execOutcome, execResult>>
    /\ UNCHANGED <<issued, lookups, volumes, resolved, pending, failed, outputData, execError>>
    /\ UNCHANGED <<coreVars, sizeVars, filterVars, cleanVars>>

\* The try block of item itemIndex up to its first await or its end.
ExecItem ==
    /\ execPc = "item"
    /\ LET item == execItems[itemIndex] IN
       IF NeedsLookup(operation, item.locator)
       THEN /\ issued' = Append(issued, [item |-> itemIndex, method |-> "GET",
                                         target |-> Undefined])
            /\ volumes' = <<>>
            /\ execPc' = "lookup"
            /\ UNCHANGED <<itemIndex, resolved, pending, failed, outputData,
                           execOutcome, execResult, execError>>
       ELSE Proceed(item.locator.value)
    /\ UNCHANGED <<operation, execItems, continueOnFail, lookups>>
    /\ UNCHANGED <<coreVars, sizeVars, filterVars, cleanVars>>

\* A page of the lookup arrives: the walk goes on, or it is over and the
\* resolver throws "not found" or returns the first record's uuid.
ExecLookupPage(page) ==
    /\ execPc = "lookup"
    /\ lookups' = Append(lookups, [item |-> itemIndex, page |-> page])
    /\ IF ContinueWalk(page.next)
       THEN /\ volumes' = Accumulate(volumes, page)
            /\ issued' = Append(issued, [item |-> itemIndex, method |-> "GET",
                                         target |-> Undefined])
            /\ UNCHANGED <<execPc, itemIndex, resolved, pending, failed, outputData,
                           execOutcome, execResult, execError>>
       ELSE LET found == Accumulate(volumes, page) IN
            IF Len(found) = 0
            THEN /\ Caught(NotFoundError(operation, execItems[itemIndex].locator.value))
            ELSE /\ Proceed(found[1].uuid)
    /\ UNCHANGED <<operation, execItems, continueOnFail>>
    /\ UNCHANGED <<coreVars, sizeVars, filterVars, cleanVars>>

\* A request of the item fails: ontapApiRequest throws.
ExecRequestFails(raw) ==
    /\ execPc \in {"lookup", "mutate"}
    /\ Caught(RequestFailure(raw))
    /\ UNCHANGED <<operation, execItems, continueOnFail, lookups>>
    /\ UNCHANGED <<coreVars, sizeVars, filterVars, cleanVars>>

\* The mutating request returns: handleAsyncResponse waits for its job, or
\* returns the response as it is.
ExecMutationReturns(resp) ==
    /\ execPc = "mutate"
    /\ IF AsyncBranch(resp, TRUE) = "poll"
       THEN /\ execPc' = "wait"
            /\ pending' = resp
            /\ UNCHANGED <<itemIndex, issued, volumes, resolved, failed, outputData,
                           execOutcome, execResult, execError>>
       ELSE Pushed(ItemResult(operation, resolved[1], resp))
    /\ UNCHANGED <<operation, execItems, continueOnFail, lookups>>
    /\ UNCHANGED <<coreVars, sizeVars, filterVars, cleanVars>>

\* The job wait of handleAsyncResponse ends, with the finished job or with the
\* error of a failed job.
ExecWaitEnds(job) ==
    /\ execPc = "wait"
    /\ IF JobVerdict(job) = "returned"
       THEN Pushed(ItemResult(operation, resolved[1], CompletedResult(pending, job)))
       ELSE Caught(JobFailedError(job))
    /\ UNCHANGED <<operation, execItems, continueOnFail, lookups>>
    /\ UNCHANGED <<coreVars, sizeVars, filterVars, cleanVars>>

NextExec ==
    \/ \E op \in NodeOperations, n \in 0..MaxItems, continue \in BOOLEAN :
          \E its \in ItemLists(op, n) : ExecCall(op, its, continue)
    \/ ExecItem
    \/ \E page \in LookupPages(\A k \in 1..Len(lookups) : lookups[k].item # itemIndex) :
          ExecLookupPage(page)
    \/ \E raw \in {RawError(Some(404), Undefined, Some("Request failed with status code 404"))} :
          ExecRequestFails(raw)
    \/ \E resp \in MutationResponses : ExecMutationReturns(resp)
    \/ \E job \in FinishedJobs : ExecWaitEnds(job)

(***************************************************************************)
(* The system                                                              *)
(***************************************************************************)
Init ==
    /\ clusterHost \in {"ontap1"}
    /\ clusterPort \in {DEFAULT_PORT, 8443}
    /\ sent = <<>>
    /\ raised = <<>>
    /\ now = StartClock
    /\ pollPc = "idle"
    /\ jobUuid = ""
    /\ timeoutMs = 0
    /\ pollIntervalMs = 0
    /\ startTime = <<>>
    /\ trace = <<>>
    /\ observed = <<>>
    /\ waited = 0
    /\ lastLatency = 0
    /\ lastSleep = 0
    /\ pollOutcome = "none"
    /\ pollResult = <<>>
    /\ pollError = <<>>
    /\ walkPc = "idle"
    /\ method = ""
    /\ endpoint = <<>>
    /\ body = EmptyObject
    /\ query = EmptyObject
    /\ query0 = EmptyObject
    /\ returnData = <<>>
    /\ nextLink = <<>>
    /\ served = <<>>
    /\ walkOutcome = "none"
    /\ walkResult = <<>>
    /\ walkError = <<>>
    /\ reqPc = "idle"
    /\ reqArgs = NoArgs
    /\ reqArgs0 = NoArgs
    /\ reqRaw = <<>>
    /\ reqOutcome = "none"
    /\ reqResult = <<>>
    /\ reqError = <<>>
    /\ asyncPc = "idle"
    /\ response = NoResponse
    /\ response0 = NoResponse
    /\ waitForCompletion = FALSE
    /\ asyncOutcome = "none"
    /\ asyncResult = <<>>
    /\ asyncError = <<>>
    /\ normPc = "idle"
    /\ normArg = NoRawValue
    /\ normIn = <<>>
    /\ normOut = <<>>
    /\ normOutcome = "none"
    /\ sizePc = "idle"
    /\ sizeStr = <<>>
    /\ sizeOutcome = "none"
    /\ sizeValue = <<>>
    /\ filterPc = "idle"
    /\ filterStr = <<>>
    /\ filterQs = EmptyObject
    /\ cleanPc = "idle"
    /\ cleanArg = EmptyObject
    /\ cleanResult = EmptyObject
    /\ execPc = "idle"
    /\ operation = NoOperation
    /\ execItems = <<>>
    /\ continueOnFail = FALSE
    /\ itemIndex = 1
    /\ issued = <<>>
    /\ lookups = <<>>
    /\ volumes = <<>>
    /\ resolved = <<>>
    /\ pending = NoResponse
    /\ failed = <<>>
    /\ outputData = <<>>
    /\ execOutcome = "none"
    /\ execResult = <<>>
    /\ execError = <<>>

Next ==
    \/ NextPoll
    \/ NextWalk
    \/ NextReq
    \/ NextAsync
    \/ \E v \in AnyRawErrors : NormCall(v)
    \/ \E str \in SizeTexts : ParseSizeCall(str)
    \/ \E filterString \in UNION { JoinedClauses(n) : n \in 1..MaxClauses } :
          ParseApiFiltersCall(filterString)
    \/ \E obj \in NestedObjects(MaxNesting) \cup {DocumentedObject} : CleanObjectCall(obj)
    \/ NextExec

Spec == Init /\ [][Next]_vars

\* The host's event loop runs every continuation that is ready: a round trip
\* that was started ends, a timer that was set fires, and synchronous code
\* after an await runs on.
PollStep ==
    \/ PollEnter
    \/ PollIssueFetch
    \/ PollTimeout
    \/ \E job \in JobReplies(jobUuid), latency \in Latencies : PollFetchReturns(job, latency)
    \/ \E raw \in RawErrors, latency \in Latencies : PollFetchFails(raw, latency)
    \/ \E jitter \in 0..MaxJitter : PollWake(jitter)

FairSpec == Spec /\ WF_vars(PollStep)

(***************************************************************************)
(* Properties of pollJobUntilComplete                                      *)
(***************************************************************************)
FetchEvents == {i \in DOMAIN trace : trace[i].ev = "fetch"}
SleepEvents == {i \in DOMAIN trace : trace[i].ev = "sleep"}
\* fetch, sleep, fetch, sleep, ... : one sleep between consecutive fetches
Alternating ==
    \A i \in DOMAIN trace : trace[i].ev = (IF i % 2 = 1 THEN "fetch" ELSE "sleep")
IsPendingJob(job) == job.state \in {Some(s) : s \in PendingStates}
AllObservedPending == \A i \in DOMAIN observed : IsPendingJob(observed[i])
SawState(st) == observed # <<>> /\ Last(observed).state = st

\* C1: when the source has reported n non-terminal states and then success,
\* the call has returned that success payload, after exactly n+1 status
\* fetches and n sleeps of at least pollIntervalMs each, one sleep between
\* consecutive fetches, and nothing follows the success; and the call returns
\* a job only in that situation.
C1_SuccessAfterPending ==
    /\ SawState(Some("success")) =>
          LET n == Len(observed) - 1 IN
          /\ \A i \in 1..n : IsPendingJob(observed[i])
          /\ pollPc = "done"
          /\ pollOutcome = "returned"
          /\ pollResult = Some(Last(observed))
          /\ pollError = <<>>
          /\ Cardinality(FetchEvents) = n + 1
          /\ Cardinality(SleepEvents) = n
          /\ Len(trace) = 2 * n + 1
          /\ Alternating
          /\ Len(sent) = n + 1
          /\ waited >= n * pollIntervalMs
    /\ pollOutcome = "returned" => SawState(Some("success"))

C1_Witness ==
    /\ pollOutcome = "returned"
    /\ Len(observed) = 3
    /\ observed[1].state = Some("running")
    /\ observed[2].state = Some("running")
    /\ Cardinality(FetchEvents) = 3
    /\ waited >= 2 * pollIntervalMs

\* C2: once a status fetch has reported failure the call has thrown, not
\* returned; the error message contains the job's message, or the fixed text
\* when the job has none; no sleep or fetch follows.
C2_FailureRaises ==
    SawState(Some("failure")) =>
        LET job == Last(observed) IN
        /\ pollPc = "done"
        /\ pollOutcome = "jobFailed"
        /\ pollResult = <<>>
        /\ pollError # <<>>
        /\ IF job.message = <<>>
           THEN Contains(pollError[1].message, "Job failed without error message")
           ELSE Contains(pollError[1].message, job.message[1])
        /\ Last(trace).ev = "fetch"
        /\ Cardinality(FetchEvents) = Len(observed)
        /\ Len(sent) = Len(observed)

C2_Witness ==
    /\ pollOutcome = "jobFailed"
    /\ Last(observed).message = Some("disk full")
    /\ Contains(pollError[1].message, "disk full")

C2_WitnessNoMessage ==
    /\ pollOutcome = "jobFailed"
    /\ Last(observed).message = Undefined

\* C3: once a status fetch has reported a state outside queued, running,
\* paused, success, failure (a missing state included) the call has thrown
\* "Unknown job state: <value>", with no sleep and no fetch after it.
KnownStates == {Some(s) : s \in PendingStates \cup {"success", "failure"}}
C3_UnknownStateRaises ==
    (observed # <<>> /\ Last(observed).state \notin KnownStates) =>
        /\ pollPc = "done"
        /\ pollOutcome = "unknownState"
        /\ pollResult = <<>>
        /\ pollError # <<>>
        /\ pollError[1].message = <<"Unknown job state: ", TemplateText(Last(observed).state)>>
        /\ Last(trace).ev = "fetch"
        /\ Cardinality(FetchEvents) = Len(observed)
        /\ Len(sent) = Len(observed)

C3_Witness ==
    /\ pollOutcome = "unknownState"
    /\ Len(observed) = 2
    /\ Last(observed).state = Undefined
    /\ pollError[1].message = <<"Unknown job state: ", "undefined">>

\* C4: a call whose status fetches all return and only ever report
\* non-terminal states ends with the timeout error and never returns a job;
\* every status fetch is started at a loop-top check at which less than
\* timeoutMs has elapsed since entry.
C4_NoFetchAfterTimeout ==
    /\ \A i \in FetchEvents : trace[i].at < timeoutMs
    /\ pollPc = "fetch" => Elapsed < timeoutMs
    /\ (observed # <<>> /\ AllObservedPending) => pollOutcome \in {"none", "timeout", "requestError"}
    /\ pollOutcome = "timeout" => (Elapsed >= timeoutMs /\ AllObservedPending)
C4_TimeoutReached ==
    /\ (pollPc # "idle") ~>
          (pollOutcome = "timeout" \/ ~AllObservedPending \/ pollOutcome = "requestError")
    /\ []C4_NoFetchAfterTimeout

C4_Witness ==
    /\ pollOutcome = "timeout"
    /\ Len(observed) >= 2
    /\ AllObservedPending

\* C5 as stated: the timeout error is raised no later than
\* timeoutMs + pollIntervalMs after entry.
C5_Original ==
    pollOutcome = "timeout" => Elapsed <= timeoutMs + pollIntervalMs

\* C5 as amended: the timeout error is raised at entry when timeoutMs is not
\* positive, and otherwise when the sleep after the last status fetch ends;
\* that fetch started before timeoutMs had elapsed, so the time by which
\* timeoutMs is exceeded is less than the duration of that fetch plus the
\* duration of that sleep (itself at least pollIntervalMs).
C5_TimeoutOvershoot ==
    pollOutcome = "timeout" =>
        \/ /\ trace = <<>>
           /\ timeoutMs <= 0
           /\ Elapsed = 0
        \/ /\ Len(trace) >= 2
           /\ Last(trace).ev = "sleep"
           /\ trace[Len(trace) - 1].ev = "fetch"
           /\ trace[Len(trace) - 1].at < timeoutMs
           /\ lastSleep >= pollIntervalMs
           /\ Elapsed = trace[Len(trace) - 1].at + lastLatency + lastSleep
           /\ Elapsed - timeoutMs < lastLatency + lastSleep

C5_Witness ==
    /\ pollOutcome = "timeout"
    /\ lastLatency > 0
    /\ Elapsed > timeoutMs + pollIntervalMs

(***************************************************************************)
(* Properties of ontapApiRequestAllItems                                   *)
(***************************************************************************)
InWalk == walkPc \notin {"idle", "entry"}
\* A page carries a next link: _links.next.href is there and not empty.
HasNextLink(page) == page.next # <<>> /\ page.next[1] # ""
RecordsIn(page) == IF page.records = <<>> THEN <<>> ELSE page.records[1]
RECURSIVE ConcatRecords(_)
ConcatRecords(pages) ==
    IF pages = <<>> THEN <<>> ELSE RecordsIn(Head(pages)) \o ConcatRecords(Tail(pages))
BaseUrlText == <<"https://", clusterHost, ":", ToString(clusterPort)>>

\* C6: against a chain of k pages (k-1 pages with a next link, then one
\* without) the walker returns the concatenation of the pages' records in
\* page order and within-page order, a page without records contributing
\* nothing, after exactly k requests.
C6_Concatenation ==
    /\ InWalk => returnData = ConcatRecords(served)
    /\ walkOutcome = "returned" =>
          /\ walkResult = Some(ConcatRecords(served))
          /\ Len(sent) = Len(served)
          /\ \A i \in 1..(Len(served) - 1) : HasNextLink(served[i])
          /\ ~HasNextLink(Last(served))

C6_Witness ==
    /\ walkOutcome = "returned"
    /\ Len(served) = 3
    /\ Len(sent) = 3
    /\ Len(RecordsIn(served[1])) = 2
    /\ Len(RecordsIn(served[2])) = 2
    /\ Len(RecordsIn(served[3])) = 1
    /\ walkResult = Some(<<[id |-> 11], [id |-> 12], [id |-> 21], [id |-> 22], [id |-> 31]>>)

\* C7: the first request goes to the caller's path under /api with the
\* caller's query (max_records seeded); every later request goes to
\* https://{host}:{port}{href}, href being the next link of the response just
\* before it, and carries no query parameters.
C7_RequestTargets ==
    (InWalk /\ sent # <<>>) =>
        /\ sent[1].url = BaseUrlText \o <<"/api">> \o endpoint
        /\ sent[1].method = method
        /\ sent[1].qs # <<>>
        /\ DOMAIN sent[1].qs[1] = DOMAIN query0 \cup {"max_records"}
        /\ \A k \in DOMAIN query0 \ {"max_records"} : sent[1].qs[1][k] = query0[k]
        /\ \A i \in 2..Len(sent) :
              /\ served[i - 1].next # <<>>
              /\ sent[i].url = BaseUrlText \o <<served[i - 1].next[1]>>
              /\ sent[i].qs = Undefined
              /\ sent[i].method = method

C7_Witness ==
    /\ InWalk
    /\ Len(sent) = 3
    /\ served[1].next # served[2].next
    /\ "return_timeout" \in DOMAIN query0
    /\ clusterPort # DEFAULT_PORT
    /\ sent[3].qs = Undefined

\* C8: the walker returns exactly when a response carries no next link, right
\* after that response and without another request; while every response
\* carries a next link it never returns, however many pages that makes (here
\* followed for MaxRequests pages).
C8_TerminatesOnMissingLink ==
    /\ walkOutcome = "returned" <=> (served # <<>> /\ ~HasNextLink(Last(served)))
    /\ walkOutcome = "returned" =>
          /\ walkPc = "done"
          /\ Len(sent) = Len(served)
          /\ \A i \in 1..(Len(served) - 1) : HasNextLink(served[i])
    /\ (served # <<>> /\ HasNextLink(Last(served))) =>
          \/ walkPc = "loop" /\ (ENABLED WalkIssue \/ Len(served) = MaxRequests)
          \/ walkPc = "await"
          \/ walkOutcome = "requestError"

\* A server whose every page links to the same href: MaxRequests pages on, the
\* walker is still at the top of its loop.
C8_Witness ==
    /\ Len(served) = MaxRequests
    /\ \A i \in DOMAIN served : served[i].next = Some("/api/storage/volumes?start.uuid=a")
    /\ walkPc = "loop"
    /\ walkOutcome = "none"

\* C9: when the request for a page fails the walker ends with exactly the
\* error ontapApiRequest threw, requests no further page and returns none of
\* the records it had accumulated.
C9_FailureAborts ==
    /\ (InWalk /\ raised # <<>>) => walkOutcome = "requestError"
    /\ walkOutcome = "requestError" =>
          /\ walkPc = "done"
          /\ Len(raised) = 1
          /\ walkError = Some(raised[1])
          /\ walkResult = Undefined
          /\ Len(sent) = Len(served) + 1

C9_Witness ==
    /\ walkOutcome = "requestError"
    /\ Len(served) = 2
    /\ returnData # <<>>
    /\ walkResult = Undefined

\* C10: the first request carries max_records = 1000 when the caller set no
\* max_records, and the caller's own value whenever the caller set one.
C10_MaxRecordsSent ==
    (InWalk /\ sent # <<>>) =>
        /\ sent[1].qs # <<>>
        /\ "max_records" \in DOMAIN sent[1].qs[1]
        /\ sent[1].qs[1]["max_records"] =
              (IF "max_records" \in DOMAIN query0 THEN query0["max_records"]
               ELSE DEFAULT_MAX_RECORDS)

(***************************************************************************)
(* Properties of the single request, of handleAsyncResponse and of         *)
(* parseOntapError                                                         *)
(***************************************************************************)
InReq == reqPc # "idle"
InAsync == asyncPc # "idle"

\* C11: no operation changes an object its caller passed: the query and body
\* of a request, the query of a walk and the response given to
\* handleAsyncResponse hold after the call what they held before it.
C11_InputsUnchanged ==
    /\ InWalk => query = query0
    /\ InReq => reqArgs = reqArgs0
    /\ InAsync => response = response0

\* C12: a request sent with GET or DELETE carries no body, whatever body the
\* caller passed; a request made with an empty query carries no query field,
\* and a non-empty query is sent as given.
C12_BodyAndQueryOmitted ==
    /\ \A i \in DOMAIN sent :
          /\ sent[i].method \in {"GET", "DELETE"} => sent[i].body = Undefined
          /\ sent[i].qs # Some(EmptyObject)
    /\ (reqPc \in {"await", "done"} /\ sent # <<>>) =>
          /\ sent[1].method = reqArgs0.method
          /\ reqArgs0.method \in {"GET", "DELETE"} => sent[1].body = Undefined
          /\ DOMAIN reqArgs0.query = {} => sent[1].qs = Undefined
          /\ DOMAIN reqArgs0.query # {} => sent[1].qs = Some(reqArgs0.query)

C12_Witness ==
    /\ reqPc = "done"
    /\ reqArgs0.method = "DELETE"
    /\ DOMAIN reqArgs0.body # {}
    /\ DOMAIN reqArgs0.query = {}
    /\ Len(sent) = 1
    /\ sent[1].body = Undefined
    /\ sent[1].qs = Undefined

\* C13 as stated: every call of ontapApiRequest makes exactly one round
\* trip, whether it ends with a response or with an error, and a failed
\* round trip ends the call.
C13_Original ==
    /\ reqPc = "done" => Len(sent) = 1
    /\ reqRaw # <<>> => (reqPc = "done" /\ reqOutcome = "error")

\* C13: a call of ontapApiRequest whose lookups succeed makes exactly one
\* round trip, whether that ends with a response or with an error; a failed
\* round trip is not retried and ends the call; a call whose lookup throws
\* makes none.
C13_OneRoundTrip ==
    InReq =>
        /\ Len(sent) <= 1
        /\ reqPc = "await" => Len(sent) = 1
        /\ reqOutcome = "returned" => Len(sent) = 1
        /\ reqRaw # <<>> => (Len(sent) = 1 /\ reqPc = "done" /\ reqOutcome = "error")
        /\ (reqPc = "done" /\ sent = <<>>) =>
              (reqOutcome = "error" /\ reqError # <<>> /\ reqError[1] \in HostErrors)

C13_Witness ==
    /\ reqPc = "done"
    /\ reqOutcome = "error"
    /\ reqRaw # <<>>
    /\ Len(sent) = 1

\* C14: whenever ontapApiRequest fails it throws a NodeApiError whose message
\* is parseOntapError of the underlying failure, never the raw exception, and
\* it returns no value after a failed round trip.
C14_FailureNormalized ==
    /\ (InReq /\ reqOutcome = "error") =>
          /\ reqResult = Undefined
          /\ reqError # <<>>
          /\ reqError[1].name = "NodeApiError"
          /\ reqRaw # <<>>
          /\ reqError[1].message = parseOntapError(reqRaw[1])
    /\ (InReq /\ reqRaw # <<>>) => reqOutcome = "error"

\* A response has no job.uuid: no job, a job without uuid, or an empty uuid.
NoJobUuid(resp) ==
    \/ resp.job = <<>>
    \/ resp.job[1].uuid = <<>>
    \/ resp.job[1].uuid[1] = ""

\* C15: for a response without job.uuid handleAsyncResponse returns that
\* response as it is, without a _jobCompleted marker, and sends no request.
C15_NoJobPassThrough ==
    (asyncPc = "done" /\ NoJobUuid(response0)) =>
        /\ asyncOutcome = "returned"
        /\ asyncResult = Some(response0)
        /\ asyncResult[1].jobCompleted = Undefined
        /\ sent = <<>>
        /\ pollPc = "idle"

C15_Witness ==
    /\ asyncPc = "done"
    /\ response0 = ApiResponse(Some("x"), Undefined)
    /\ waitForCompletion
    /\ asyncResult = Some(response0)

\* C16: for a response with job.uuid and waitForCompletion true the function
\* returns only once the poller has returned, and then the response with job
\* replaced by the poller's job and _jobCompleted true; so a result marked
\* _jobCompleted true has job.state success.
C16_WaitedResult ==
    /\ asyncPc = "polling" => (asyncOutcome = "none" /\ asyncResult = Undefined)
    /\ (asyncPc = "done" /\ ~NoJobUuid(response0) /\ waitForCompletion
          /\ asyncOutcome = "returned") =>
          /\ pollPc = "done"
          /\ pollOutcome = "returned"
          /\ asyncResult = Some([response0 EXCEPT !.job = pollResult,
                                                  !.jobCompleted = Some(TRUE)])
    /\ (asyncResult # <<>> /\ asyncResult[1].jobCompleted = Some(TRUE)) =>
          /\ asyncResult[1].job # <<>>
          /\ asyncResult[1].job[1].state = Some("success")

C16_Witness ==
    /\ asyncOutcome = "returned"
    /\ asyncResult[1].jobCompleted = Some(TRUE)
    /\ asyncResult[1].uuid = Some("x")
    /\ Len(observed) = 2

\* C17: for a response with job.uuid and waitForCompletion false the function
\* sends no request and returns the response with _jobCompleted false added
\* and job as received.
C17_UnwaitedResult ==
    (asyncPc = "done" /\ ~NoJobUuid(response0) /\ ~waitForCompletion) =>
        /\ asyncOutcome = "returned"
        /\ sent = <<>>
        /\ pollPc = "idle"
        /\ asyncResult = Some([response0 EXCEPT !.jobCompleted = Some(FALSE)])
        /\ asyncResult[1].job = response0.job

C17_Witness ==
    /\ asyncPc = "done"
    /\ ~waitForCompletion
    /\ asyncResult # <<>>
    /\ asyncResult[1].jobCompleted = Some(FALSE)

\* C18: handleAsyncResponse throws exactly when the poller it invoked threw,
\* and throws that error: a job failure, an unknown state or a timeout makes
\* the call fail with no result.
PollErrors == {"jobFailed", "unknownState", "timeout", "requestError"}
C18_PollerErrorForwarded ==
    /\ asyncOutcome = "error" =>
          /\ asyncPc = "done"
          /\ pollPc = "done"
          /\ pollOutcome \in PollErrors
          /\ asyncError # <<>>
          /\ asyncError = pollError
          /\ asyncResult = Undefined
    /\ (asyncPc = "done" /\ pollOutcome \in PollErrors) => asyncOutcome = "error"

C18_Witness ==
    /\ asyncOutcome = "error"
    /\ pollOutcome = "timeout"
    /\ asyncError = pollError
    /\ sent # <<>>

\* C19: for a raw error with a nested error.message parseOntapError returns
\* that message, followed by " (Error code: <code>)" when error.code is
\* there, whatever statusCode, code and message the raw error has itself.
HasNestedMessage(raw) ==
    /\ raw.error # <<>>
    /\ ~raw.error[1].isArray
    /\ raw.error[1].message # <<>>
    /\ raw.error[1].message[1] # ""
C19_NestedMessageFirst ==
    (normPc = "done" /\ HasNestedMessage(normIn[1])) =>
        LET nested == normIn[1].error[1] IN
        normOut = Some(<<nested.message[1]>> \o
                       (IF nested.code # <<>>
                        THEN <<" (Error code: ", nested.code[1], ")">> ELSE <<>>))

C19_Witness ==
    /\ normPc = "done"
    /\ normIn[1].error = Some(NestedObject(Some("x"), Some("917927")))
    /\ normIn[1].statusCode = Some(404)
    /\ normIn[1].code = Some("917927")
    /\ normIn[1].message = Some("boom")
    /\ normOut = Some(<<"x", " (Error code: ", "917927", ")">>)

\* C20: parseOntapError returns the result of the first rule that applies,
\* in the order nested message, nested sequence, listed status code, vendor
\* code of the table, plain message, fallback.
ListedStatus == {400, 401, 403, 404, 409, 500, 503}
JoinedText(items) ==
    [i \in 1..(IF items = <<>> THEN 0 ELSE 2 * Len(items) - 1) |->
        IF i % 2 = 0 THEN "; "
        ELSE IF items[(i + 1) \div 2].message \in {Undefined, Some("")}
             THEN "Unknown error"
             ELSE items[(i + 1) \div 2].message[1]]
FirstRule(raw) ==
    CASE HasNestedMessage(raw) -> 1
      [] raw.error # <<>> /\ raw.error[1].isArray -> 2
      [] raw.statusCode # <<>> /\ raw.statusCode[1] \in ListedStatus -> 3
      [] raw.code # <<>> /\ raw.code[1] \in DOMAIN errorCodeMap -> 4
      [] raw.message # <<>> /\ raw.message[1] # "" -> 5
      [] OTHER -> 6
C20_FirstRuleWins ==
    normPc = "done" =>
        LET raw == normIn[1]
            rule == FirstRule(raw) IN
        /\ rule = 1 => normOut[1][1] = raw.error[1].message[1]
        /\ rule = 2 => normOut = Some(JoinedText(raw.error[1].items))
        /\ rule = 3 => normOut = Some(<<statusCodeMap[raw.statusCode[1]]>>)
        /\ rule = 4 => normOut = Some(<<errorCodeMap[raw.code[1]]>>)
        /\ rule = 5 => normOut = Some(<<raw.message[1]>>)
        /\ rule = 6 =>
              normOut = Some(<<"An unknown error occurred while communicating with ONTAP">>)

\* A listed status code beside a known vendor code and a plain message.
C20_Witness ==
    /\ normPc = "done"
    /\ normIn[1].error = Undefined
    /\ normIn[1].statusCode = Some(404)
    /\ normIn[1].code = Some("917927")
    /\ normIn[1].message = Some("boom")
    /\ normOut = Some(<<"Resource not found">>)

\* C21: parseOntapError is total: whatever value it is given (null and
\* undefined, an empty mapping, a nested sequence with an entry that is not a
\* mapping, a message that is not a string) it returns a string and does not
\* throw.
C21_Total == normPc # "idle" => normOutcome = "string"

(***************************************************************************)
(* Properties of parseSize                                                 *)
(***************************************************************************)
AllWhitespace(t) == \A i \in DOMAIN t : t[i] \in Whitespace
\* digits, optionally followed by a point and more digits
IsNumberText(t) ==
    /\ t # <<>>
    /\ \A i \in DOMAIN t : t[i] \in {"0", "1", "2", "3", "4", "5", "6", "7", "8", "9"} \/ (t[i] = "." /\ 1 < i /\ i < Len(t))
    /\ Cardinality({i \in DOMAIN t : t[i] = "."}) <= 1
IsUnitText(t) ==
    /\ Len(t) \in {1, 2}
    /\ t[Len(t)] \in {"B", "b"}
    /\ Len(t) = 2 => t[1] \in {"K", "k", "M", "m", "G", "g", "T", "t", "P", "p"}
\* The ways to cut str into padding, number, padding, unit, padding; there
\* is at most one.  <<a, b, c, d>> gives the ends of the first four parts.
SizeCuts(str) ==
    { cut \in (0..Len(str)) \X (0..Len(str)) \X (0..Len(str)) \X (0..Len(str)) :
        /\ cut[1] < cut[2] /\ cut[2] <= cut[3] /\ cut[3] <= cut[4]
        /\ AllWhitespace(SubSeq(str, 1, cut[1]))
        /\ IsNumberText(SubSeq(str, cut[1] + 1, cut[2]))
        /\ AllWhitespace(SubSeq(str, cut[2] + 1, cut[3]))
        /\ (cut[3] = cut[4] \/ IsUnitText(SubSeq(str, cut[3] + 1, cut[4])))
        /\ AllWhitespace(SubSeq(str, cut[4] + 1, Len(str))) }
\* The same without any padding: <number>[unit] and nothing else.
IsPlainSize(str) ==
    \E cut \in SizeCuts(str) : cut[1] = 0 /\ cut[2] = cut[3] /\ cut[4] = Len(str)
\* floor(number * 1024^k) in exact arithmetic, as decimal digits
ExactBytes(str, cut) ==
    LET number == SubSeq(str, cut[1] + 1, cut[2])
        point == {i \in DOMAIN number : number[i] = "."}
        digits == [i \in 1..(Len(number) - Cardinality(point)) |->
                       IF point # {} /\ i >= (CHOOSE j \in point : TRUE)
                       THEN number[i + 1] ELSE number[i]]
        fraction == IF point = {} THEN 0 ELSE Len(number) - (CHOOSE j \in point : TRUE)
        unit == SubSeq(str, cut[3] + 1, cut[4])
        k == IF Len(unit) < 2 THEN 0
             ELSE CHOOSE r \in 1..5 : unit[1] \in {<<"K", "M", "G", "T", "P">>[r],
                                                    <<"k", "m", "g", "t", "p">>[r]}
    IN  BigDiv(BigTimes1024(BigOfChars(digits), k), Pow10(fraction))
HasFraction(str, cut) == \E i \in (cut[1] + 1)..cut[2] : str[i] = "."

\* C24 as stated: parseSize accepts exactly the strings <number>[unit] and
\* returns the number times 1024^k floored; every other string is a format
\* error.
C24_Original ==
    sizePc = "done" =>
        /\ sizeOutcome = "returned" <=> IsPlainSize(sizeStr)
        /\ sizeOutcome = "returned" =>
              \A cut \in SizeCuts(sizeStr) :
                  sizeValue = Some(BigToChars(ExactBytes(sizeStr, cut)))

\* C24: parseSize accepts exactly the strings made of a number and an
\* optional unit (any case, default bytes) with optional whitespace before,
\* between and after them; it returns the floor of the number's double times
\* 1024^k: the exact floor of number * 1024^k for a number without fraction,
\* that or one more for a number with a fraction; parseSize("100GB") =
\* 107374182400, parseSize("1TB") = 1099511627776, parseSize("500") = 500,
\* parseSize("0.54PB") = 607985949695017; every other string is a format
\* error with no value.
C24_SizeGrammar ==
    sizePc = "done" =>
        /\ sizeOutcome \in {"returned", "formatError"}
        /\ sizeOutcome = "returned" <=> SizeCuts(sizeStr) # {}
        /\ sizeOutcome = "formatError" => sizeValue = Undefined
        /\ sizeOutcome = "returned" =>
              \A cut \in SizeCuts(sizeStr) :
                  LET exact == ExactBytes(sizeStr, cut) IN
                  \/ sizeValue = Some(BigToChars(exact))
                  \/ /\ HasFraction(sizeStr, cut)
                     /\ sizeValue = Some(BigToChars(BigAddOne(exact)))
        /\ sizeStr = <<"1", "0", "0", "G", "B">> =>
              sizeValue = Some(<<"1", "0", "7", "3", "7", "4", "1", "8", "2", "4", "0", "0">>)
        /\ sizeStr = <<"1", "T", "B">> =>
              sizeValue = Some(<<"1", "0", "9", "9", "5", "1", "1", "6", "2", "7", "7", "7", "6">>)
        /\ sizeStr = <<"5", "0", "0">> => sizeValue = Some(<<"5", "0", "0">>)
        /\ sizeStr = <<"0", ".", "5", "4", "P", "B">> =>
              sizeValue = Some(<<"6", "0", "7", "9", "8", "5", "9", "4", "9", "6", "9", "5",
                                 "0", "1", "7">>)

\* A size with padding and a lower-case unit: " 1.5 kb " is 1536 bytes.
C24_Witness ==
    /\ sizePc = "done"
    /\ sizeStr = <<" ", "1", ".", "5", " ", "k", "b", " ">>
    /\ sizeOutcome = "returned"
    /\ sizeValue = Some(<<"1", "5", "3", "6">>)

(***************************************************************************)
(* Properties of parseApiFilters                                           *)
(***************************************************************************)
\* The clauses of a filter string: the texts between its commas.
ClausesOf(str) ==
    LET commas == {i \in 1..Len(str) : str[i] = ","}
        starts == {1} \cup {i + 1 : i \in commas}
        EndOf(b) == IF \E c \in commas : c >= b
                    THEN (CHOOSE c \in commas : c >= b /\ \A d \in commas : d >= b => c <= d) - 1
                    ELSE Len(str)
    IN { <<b, EndOf(b)>> : b \in starts }
\* The position of the first '=' of the clause str[b..e], or 0.
FirstEq(str, clause) ==
    LET eqs == {i \in clause[1]..clause[2] : str[i] = "="} IN
    IF eqs = {} THEN 0 ELSE CHOOSE i \in eqs : \A j \in eqs : i <= j
\* A text without its leading and trailing whitespace.
Trimmed(str, b, e) ==
    LET inked == {i \in b..e : str[i] \notin {" ", "\t"}} IN
    IF inked = {} THEN <<>>
    ELSE SubSeq(str, CHOOSE i \in inked : \A j \in inked : i <= j,
                     CHOOSE i \in inked : \A j \in inked : i >= j)
ClauseKey(str, clause) == Trimmed(str, clause[1], FirstEq(str, clause) - 1)
ClauseValue(str, clause) == Trimmed(str, FirstEq(str, clause) + 1, clause[2])
EqClauses(str) == {clause \in ClausesOf(str) : FirstEq(str, clause) # 0}

RECURSIVE EntriesOf(_)
EntriesOf(obj) ==
    UNION { {<<(<<key>>), obj[key]>>} \cup
            (IF TypeOf(obj[key]) = "object"
             THEN { <<(<<key>>) \o entry[1], entry[2]>> : entry \in EntriesOf(obj[key].object) }
             ELSE {})
          : key \in DOMAIN obj }
IsEmptyValue(value) ==
    \/ TypeOf(value) \in {"undefined", "null"}
    \/ TypeOf(value) = "string" /\ value.string = ""
    \/ TypeOf(value) = "object" /\ DOMAIN value.object = {}

\* C26: the mapping returned by cleanObject has no key, at any depth of
\* non-array mappings, whose value is undefined, null, "" or an empty mapping;
\* every key of the argument with another scalar value (0 and false included)
\* or with an array is kept with that very value; and nothing is added.
C26_Cleaned ==
    cleanPc = "done" =>
        /\ \A entry \in EntriesOf(cleanResult) : ~IsEmptyValue(entry[2])
        /\ \A entry \in EntriesOf(cleanArg) :
              (TypeOf(entry[2]) # "object" /\ ~IsEmptyValue(entry[2]))
                  => entry \in EntriesOf(cleanResult)
        /\ \A entry \in EntriesOf(cleanResult) :
              IF TypeOf(entry[2]) = "object"
              THEN \E given \in EntriesOf(cleanArg) :
                      given[1] = entry[1] /\ TypeOf(given[2]) = "object"
              ELSE entry \in EntriesOf(cleanArg)

\* The mapping of the documentation has been cleaned to {e: {f: "x"}, g: [1,2]}.
C26_Witness ==
    /\ cleanPc = "done"
    /\ cleanArg = DocumentedObject
    /\ cleanResult = [key \in {"e", "g"} |->
                         IF key = "e" THEN JsObject([k \in {"f"} |-> JsString("x")])
                         ELSE JsArray(<<JsNumber("1"), JsNumber("2")>>)]
\* A nested mapping has lost a key and kept another, 0 or false among the kept.
C26_NestedWitness ==
    /\ cleanPc = "done"
    /\ \E entry \in EntriesOf(cleanArg) : Len(entry[1]) = 2 /\ IsEmptyValue(entry[2])
    /\ \E entry \in EntriesOf(cleanResult) :
          Len(entry[1]) = 2 /\ entry[2] \in {JsNumber("0"), JsBoolean("false")}

(***************************************************************************)
(* Properties of the request layer as a whole                              *)
(***************************************************************************)
\* The round trips of the call that have ended, with a response or an error.
RoundTripsEnded ==
    Len(observed) + Len(served) + Len(reqResult) + Len(reqRaw)
        + (IF pollOutcome = "requestError" THEN 1 ELSE 0)
        + (IF walkOutcome = "requestError" THEN 1 ELSE 0)
InFlight == Len(sent) - RoundTripsEnded

\* C23: within one logical operation at most one request is in flight: a
\* request is handed over only when every earlier one has returned, one is in
\* flight exactly while the operation awaits it, and in the job wait a fetch
\* other than the first starts only after the sleep that follows the previous
\* fetch has lasted its interval.
C23_OneInFlight ==
    /\ InFlight \in {0, 1}
    /\ InFlight = 1 <=> (pollPc = "fetch" \/ walkPc = "await" \/ reqPc = "await")
    /\ \A i \in 2..Len(trace) :
          trace[i].ev = "fetch" =>
              /\ trace[i - 1].ev = "sleep"
              /\ trace[i].at >= trace[i - 1].at + pollIntervalMs

\* The second request of a walk is in flight after the first has returned, or
\* the second fetch of a job wait is in flight after a sleep.
C23_Witness ==
    /\ Len(sent) = 2
    /\ InFlight = 1
    /\ \/ walkPc = "await" /\ Len(served) = 1
       \/ pollPc = "fetch" /\ Len(observed) = 1 /\ Len(trace) = 3

\* C28: the poller never reports a timeout in place of a terminal state it has
\* observed: after a fetch that returned success the call returns that job,
\* after one that returned failure it raises the job failure, whatever time
\* has passed; a timeout follows no fetch or a fetch that returned queued,
\* running or paused and the sleep after it; with timeoutMs <= 0 the call ends
\* in a timeout without any fetch.
C28_TerminalStateWins ==
    /\ (pollPc = "done" /\ observed # <<>> /\ Last(observed).state = Some("success"))
          => pollOutcome = "returned" /\ pollResult = Some(Last(observed))
    /\ (pollPc = "done" /\ observed # <<>> /\ Last(observed).state = Some("failure"))
          => pollOutcome = "jobFailed"
    /\ pollOutcome = "timeout" =>
          /\ Len(observed) * 2 = Len(trace)
          /\ observed # <<>> =>
                /\ Last(observed).state \in {Some("queued"), Some("running"), Some("paused")}
                /\ Last(trace).ev = "sleep"
    /\ (pollPc = "done" /\ timeoutMs <= 0)
          => pollOutcome = "timeout" /\ trace = <<>> /\ sent = <<>>

\* A fetch returned success after the timeout had elapsed, and the call
\* returned the job.
C28_Witness ==
    /\ pollPc = "done"
    /\ pollOutcome = "returned"
    /\ timeoutMs > 0
    /\ now - startTime[1] >= timeoutMs

\* C29: when a job-status fetch fails with a transport or HTTP error, the wait
\* is over: the call has ended with the error of that request, whose message
\* is the normalized text of what the HTTP helper raised; the failed fetch is
\* the last event of the call and the only failure, no request was sent after
\* it.
C29_FetchFailureEndsWait ==
    (pollPc # "idle" /\ raised # <<>>) =>
        /\ pollPc = "done"
        /\ pollOutcome = "requestError"
        /\ Len(raised) = 1
        /\ pollError = Some(raised[1])
        /\ raised[1].cause \in RawErrors
        /\ raised[1].message = parseOntapError(raised[1].cause)
        /\ Last(trace).ev = "fetch"
        /\ Len(sent) = Len(observed) + 1
        /\ Len(trace) = 2 * Len(observed) + 1

\* The second fetch of a wait failed with HTTP 404 after a fetch that returned
\* a running job.
C29_Witness ==
    /\ pollPc = "done"
    /\ pollOutcome = "requestError"
    /\ Len(observed) = 1
    /\ raised # <<>>
    /\ raised[1].cause.statusCode = Some(404)

(***************************************************************************)
(* Properties of execute                                                   *)
(***************************************************************************)
\* The places in `issued` of the requests made for item k.
RequestsOf(k) == {r \in 1..Len(issued) : issued[r].item = k}
LookupsOf(k) == {r \in RequestsOf(k) : issued[r].method = "GET"}
MutationsOf(k) == {r \in RequestsOf(k) : issued[r].method \in {"POST", "PATCH", "DELETE"}}
\* The pages the lookup of item k received, in order.
PagesOf(k) ==
    LET mine == SelectSeq(lookups, LAMBDA l : l.item = k)
    IN [n \in 1..Len(mine) |-> mine[n].page]
LookupComplete(k) == PagesOf(k) # <<>> /\ Last(PagesOf(k)).next = Undefined
\* The errors that item k ended with.
FailuresOf(k) == {failed[f].error : f \in {n \in 1..Len(failed) : failed[n].item = k}}
\* Item k has been dealt with.
Processed(k) == k < itemIndex \/ (execPc = "done" /\ k = itemIndex /\ k <= Len(execItems))
IsMalformed(size) == ~(\E cut \in SizeCuts(size) : TRUE)

\* C22: for a malformed size string, an operation that parses a size fails
\* with the format error before any request is issued for that item: no
\* request is ever made for such an item, and the item ends with the format
\* error, whether the target is given by UUID or by name.
C22_FormatErrorBeforeRequest ==
    \A k \in 1..Len(execItems) :
        (ParsesSize(operation, execItems[k].size) /\ IsMalformed(execItems[k].size)) =>
            /\ RequestsOf(k) = {}
            /\ Processed(k) => FailuresOf(k) = {FormatError(execItems[k].size)}

\* C27: with continue-on-fail enabled every item is processed, an item that
\* failed has exactly one output entry, {error: message} paired to it, and
\* the entries are returned in item order; with continue-on-fail disabled the
\* first failure ends the execution with that error, nothing is returned and
\* no request is made for a later item.
C27_ContinueOnFail ==
    execPc = "done" =>
        LET EntriesOf27(k) == {n \in 1..Len(outputData) : outputData[n].pairedItem = k} IN
        IF continueOnFail \/ failed = <<>>
        THEN /\ execOutcome = "returned"
             /\ execResult = Some(outputData)
             /\ itemIndex = Len(execItems) + 1
             /\ \A k \in 1..Len(execItems) :
                   /\ Cardinality(EntriesOf27(k)) = 1
                   /\ Cardinality(FailuresOf(k)) <= 1
                   /\ \A err \in FailuresOf(k) : \A n \in EntriesOf27(k) :
                         outputData[n] = [json |-> [error |-> err.message], pairedItem |-> k]
                   /\ FailuresOf(k) = {} =>
                         \A n \in EntriesOf27(k) : "error" \notin DOMAIN outputData[n].json
             /\ \A n \in 1..Len(outputData) : outputData[n].pairedItem = n
        ELSE /\ execOutcome = "thrown"
             /\ execResult = <<>>
             /\ Len(failed) = 1
             /\ execError = Some(failed[1].error)
             /\ failed[1].item = itemIndex
             /\ \A r \in 1..Len(issued) : issued[r].item <= failed[1].item
             /\ \A k \in 1..(itemIndex - 1) : FailuresOf(k) = {}

\* Continue-on-fail is enabled, the first of two items failed, the second one
\* succeeded, and both entries were returned.
C27_Witness ==
    /\ execPc = "done"
    /\ continueOnFail
    /\ Len(execItems) = 2
    /\ FailuresOf(1) # {}
    /\ FailuresOf(2) = {}
    /\ Len(outputData) = 2
\* Continue-on-fail is disabled, the first item succeeded and the second one
\* failed: nothing is returned.
C27_AbortWitness ==
    /\ execPc = "done"
    /\ ~continueOnFail
    /\ outputData # <<>>
    /\ failed # <<>>
    /\ failed[1].item = 2
    /\ execResult = <<>>

C30_NotFoundWitness ==
    /\ operation.name = "node.update"
    /\ Len(execItems) >= 1
    /\ execItems[1].locator.mode = "name"
    /\ LookupComplete(1)
    /\ FailuresOf(1) # {}
    /\ MutationsOf(1) = {}

====
